---------------------------- MODULE Spec2Model ----------------------------
(***************************************************************************)
(* Model of the turbie runtime (packages/runtime/src): the keyed sequence  *)
(* differ (utils/arrays.js), the node equivalence check (nodes-equal.js),  *)
(* and mountDOM / patchDOM / destroyDOM working on a virtual tree and a    *)
(* DOM surface.                                                            *)
(*                                                                         *)
(* JavaScript indices are 0-based and are kept 0-based in every operation  *)
(* record; TLA+ sequences are 1-based, so element i of a JS array s is     *)
(* s[i + 1] here.                                                          *)
(***************************************************************************)
EXTENDS Integers, Sequences, FiniteSets, TLC

VARIABLES
    oldArray,      \* differ: the old sequence (argument)
    newArray,      \* differ: the new sequence (argument)
    equalsFn,      \* differ: which equality function is passed
    array,         \* differ: ArrayWithOriginalIndices {#array, #originalIndices}
    index,         \* differ: loop variable of arraysDiffSequence
    sequence,      \* differ: emitted operations
    dpc,           \* differ: position ("loop", "returned", "threw", "applied")
    applied,       \* differ: result of applyArraysDiffSequence
    w,             \* tree: the world (vnode heap, DOM surface, error, log)
    cur,           \* tree: the vnode currently held as "previous tree"
    before,        \* tree: the world before the last operation
    lastOp,        \* tree: the last operation and its arguments
    patches,       \* tree: number of patch cycles performed
    argOne,        \* equivalence: first argument of areNodesEqual
    argTwo,        \* equivalence: second argument of areNodesEqual
    eqModule,      \* equivalence: the file the function is taken from
    eqResult,      \* equivalence: the value returned ("pending" before the call)
    dispatcher,    \* dispatcher: the Dispatcher object {#subs, #afterHandlers}
    issued,        \* dispatcher: the un-register functions returned so far
    live,          \* dispatcher: the registrations made and not yet un-registered
    lastCall,      \* dispatcher: the last call, its arguments and what it invoked
    app            \* application: the closure variables of createApp

dvars == <<oldArray, newArray, equalsFn, array, index, sequence, dpc, applied>>
tvars == <<w, cur, before, lastOp, patches>>
evars == <<argOne, argTwo, eqModule, eqResult>>
pvars == <<dispatcher, issued, live, lastCall, app>>
vars == <<oldArray, newArray, equalsFn, array, index, sequence, dpc, applied,
          w, cur, before, lastOp, patches,
          argOne, argTwo, eqModule, eqResult,
          dispatcher, issued, live, lastCall, app>>

(***************************************************************************)
(* Bounds of the model.                                                    *)
(***************************************************************************)
MaxLen == 3
MaxPatches == 2
MaxRenders == 3

(***************************************************************************)
(* JavaScript values.                                                      *)
(***************************************************************************)
\* `undefined` read from an array past its end, or an absent vnode
Undef == 0
\* an absent object key
Absent == "<absent>"
\* the value null / undefined stored under a key
Null == "<null>"
\* index == null in insert() and findIndexInParent()
NullIndex == 0 - 1
\* the -1 that addItem stores for an item that was not in the old array
AddedMarker == 0 - 1
\* a field an operation record does not have (undefined)
NoField == 0 - 2

DOM_TYPES == [TEXT |-> "text", ELEMENT |-> "element", FRAGMENT |-> "fragment"]
\* DOM_TYPES.COMPONENT, the type of a node whose tag is a component class
DOM_TYPES_COMPONENT == "component"

ARRAY_DIFF_OP == [ADD |-> "add", REMOVE |-> "remove", MOVE |-> "move", NOOP |-> "noop"]

AttrNames == {"id", "data-x"}
StyleNames == {"color"}
EventNames == {"click", "input"}

NoAttrs == [a \in AttrNames |-> Absent]
NoStyle == [s \in StyleNames |-> Absent]
NoEvents == [e \in EventNames |-> Absent]
NoListeners == [e \in EventNames |-> 0]
NoClass == [isArray |-> FALSE, parts |-> <<>>]

(***************************************************************************)
(* Virtual nodes.  h(), hString() and hFragment() build the description;   *)
(* the fields el / listeners / component are attached by mount and patch.  *)
(* el = 0, hasListeners = FALSE and component = FALSE stand for "field not *)
(* present".                                                               *)
(***************************************************************************)
VNode(type, tag, key, value, attrs, class, style, on, children) ==
    [type |-> type, tag |-> tag, key |-> key, value |-> value,
     attrs |-> attrs, class |-> class, style |-> style, on |-> on,
     children |-> children,
     el |-> 0, hasListeners |-> FALSE, listeners |-> NoListeners,
     component |-> FALSE]

hString(str) ==
    VNode(DOM_TYPES.TEXT, "", Absent, str, NoAttrs, NoClass, NoStyle, NoEvents, <<>>)

hFragment(vNodes) ==
    VNode(DOM_TYPES.FRAGMENT, "", Absent, "", NoAttrs, NoClass, NoStyle, NoEvents, vNodes)

h(tag, key, attrs, class, style, on, children) ==
    VNode(DOM_TYPES.ELEMENT, tag, key, "", attrs, class, style, on, children)

\* an element without props
hTag(tag, children) == h(tag, Absent, NoAttrs, NoClass, NoStyle, NoEvents, children)

\* an element with only a key
hKey(tag, key) == h(tag, key, NoAttrs, NoClass, NoStyle, NoEvents, <<>>)

(***************************************************************************)
(* nodes-equal.js: areNodesEqual.  A dereference of an absent node throws  *)
(* (TypeError): see EqThrows and patchDOM.                                 *)
(***************************************************************************)
areNodesEqualByValue(nodeOne, nodeTwo) ==
    IF nodeOne.type # nodeTwo.type THEN FALSE
    ELSE IF nodeOne.type = DOM_TYPES.ELEMENT THEN nodeOne.tag = nodeTwo.tag
    ELSE nodeOne.value = nodeTwo.value /\ nodeOne.children = nodeTwo.children

areNodesEqual(nodeOne, nodeTwo) ==
    IF nodeOne.type # nodeTwo.type THEN FALSE
    ELSE IF nodeOne.type = DOM_TYPES.ELEMENT THEN nodeOne.tag = nodeTwo.tag
    ELSE TRUE

\* the areNodesEqual that mount-dom.js carries after its own code: it also
\* compares props.key (an absent key is undefined on both sides)
areNodesEqualKeyed(nodeOne, nodeTwo) ==
    IF nodeOne.type # nodeTwo.type THEN FALSE
    ELSE IF nodeOne.type = DOM_TYPES.ELEMENT
    THEN nodeOne.tag = nodeTwo.tag /\ nodeOne.key = nodeTwo.key
    ELSE TRUE

\* the two files that export areNodesEqual; patch-dom.js imports the first
EqModules == {"nodes-equal.js", "mount-dom.js"}

areNodesEqualOf(module, nodeOne, nodeTwo) ==
    IF module = "nodes-equal.js" THEN areNodesEqual(nodeOne, nodeTwo)
    ELSE areNodesEqualKeyed(nodeOne, nodeTwo)

(***************************************************************************)
(* The equality function handed to the differ.  "identity" is the default  *)
(* (a, b) => a === b; "nodes" is areNodesEqual over the vnodes `vn` that   *)
(* the items refer to.                                                     *)
(***************************************************************************)
EqModes == {"identity", "nodes"}

EqCtx(mode, vn) == [mode |-> mode, vn |-> vn]

EqThrows(eqc, a, b) ==
    /\ eqc.mode = "nodes"
    /\ (a = Undef \/ b = Undef)

Eq(eqc, a, b) ==
    IF eqc.mode = "identity" THEN a = b
    ELSE IF a = Undef \/ b = Undef THEN FALSE
    ELSE areNodesEqual(eqc.vn[a], eqc.vn[b])

(***************************************************************************)
(* JS array helpers (0-based).                                             *)
(***************************************************************************)
At(s, i) == IF i >= 0 /\ i < Len(s) THEN s[i + 1] ELSE Undef

\* s.splice(i, 1)
SpliceOut(s, i) ==
    LET start == IF i >= 0 THEN i ELSE IF Len(s) + i < 0 THEN 0 ELSE Len(s) + i
    IN  IF start < Len(s)
        THEN SubSeq(s, 1, start) \o SubSeq(s, start + 2, Len(s))
        ELSE s

\* s.splice(i, 0, x)
SpliceIn(s, i, x) ==
    IF i >= Len(s) THEN Append(s, x)
    ELSE SubSeq(s, 1, i) \o <<x>> \o SubSeq(s, i + 1, Len(s))

\* array.findIndex / indexOf: the first 0-based position, -1 if none
RECURSIVE IndexOfFrom(_, _, _)
IndexOfFrom(s, x, i) ==
    IF i >= Len(s) THEN 0 - 1
    ELSE IF s[i + 1] = x THEN i
    ELSE IndexOfFrom(s, x, i + 1)

\* array.includes
Includes(s, x) == \E k \in 1..Len(s) : s[k] = x

(***************************************************************************)
(* utils/arrays.js: class ArrayWithOriginalIndices.  `a` is the record     *)
(* [array, originalIndices]; each method returns the operation it emits    *)
(* and/or the updated record.                                              *)
(***************************************************************************)
Operation(op, idx, item, originalIndex, from) ==
    [op |-> op, index |-> idx, item |-> item,
     originalIndex |-> originalIndex, from |-> from]

ArrayWithOriginalIndices(arr) ==
    [array |-> arr, originalIndices |-> [i \in 1..Len(arr) |-> i - 1]]

isRemoval(a, idx, newArr, eqc) ==
    IF idx >= Len(a.array) THEN FALSE
    ELSE ~ \E k \in 1..Len(newArr) : Eq(eqc, a.array[idx + 1], newArr[k])

removeItemOp(a, idx) ==
    Operation(ARRAY_DIFF_OP.REMOVE, idx, At(a.array, idx), NoField, NoField)

removeItem(a, idx) ==
    [array |-> SpliceOut(a.array, idx),
     originalIndices |-> SpliceOut(a.originalIndices, idx)]

isNoopThrows(a, idx, newArr, eqc) ==
    /\ idx < Len(newArr)
    /\ EqThrows(eqc, At(a.array, idx), newArr[idx + 1])

isNoop(a, idx, newArr, eqc) ==
    IF idx >= Len(newArr) THEN FALSE
    ELSE Eq(eqc, At(a.array, idx), newArr[idx + 1])

originalIndexAt(a, idx) ==
    IF idx >= 0 /\ idx < Len(a.originalIndices)
    THEN a.originalIndices[idx + 1] ELSE NoField

noopItem(a, idx) ==
    Operation(ARRAY_DIFF_OP.NOOP, idx, At(a.array, idx), originalIndexAt(a, idx), NoField)

RECURSIVE findIndexFrom(_, _, _, _)
findIndexFrom(a, item, fromIndex, eqc) ==
    IF fromIndex >= Len(a.array) THEN 0 - 1
    ELSE IF Eq(eqc, item, a.array[fromIndex + 1]) THEN fromIndex
    ELSE findIndexFrom(a, item, fromIndex + 1, eqc)

isAddition(a, item, fromIdx, eqc) ==
    findIndexFrom(a, item, fromIdx, eqc) = 0 - 1

addItemOp(item, idx) ==
    Operation(ARRAY_DIFF_OP.ADD, idx, item, NoField, NoField)

\* addItem without the splice of the original-index shadow array
addItemForgetsShadow(a, item, idx) ==
    [array |-> SpliceIn(a.array, idx, item), originalIndices |-> a.originalIndices]

addItem(a, item, idx) ==
    [array |-> SpliceIn(a.array, idx, item),
     originalIndices |-> SpliceIn(a.originalIndices, idx, AddedMarker)]

\* moveItem reporting the position in the working sequence as originalIndex
moveItemOpFromAsOriginal(a, item, toIndex, eqc) ==
    LET fromIndex == findIndexFrom(a, item, toIndex, eqc)
    IN  Operation(ARRAY_DIFF_OP.MOVE, toIndex, At(a.array, fromIndex),
                  fromIndex, fromIndex)

moveItemOp(a, item, toIndex, eqc) ==
    LET fromIndex == findIndexFrom(a, item, toIndex, eqc)
    IN  Operation(ARRAY_DIFF_OP.MOVE, toIndex, At(a.array, fromIndex),
                  originalIndexAt(a, fromIndex), fromIndex)

moveItemKeepsPlace(a, item, toIndex, eqc) == a

moveItem(a, item, toIndex, eqc) ==
    LET fromIndex == findIndexFrom(a, item, toIndex, eqc)
    IN  [array |-> SpliceIn(SpliceOut(a.array, fromIndex), toIndex,
                            At(a.array, fromIndex)),
         originalIndices |-> SpliceIn(SpliceOut(a.originalIndices, fromIndex),
                                      toIndex, At(a.originalIndices, fromIndex))]

RECURSIVE removeItemsAfterAdvancing(_, _)
removeItemsAfterAdvancing(a, idx) ==
    IF Len(a.array) > idx
    THEN <<removeItemOp(a, idx)>> \o removeItemsAfterAdvancing(a, idx + 1)
    ELSE <<>>

RECURSIVE removeItemsAfter(_, _)
removeItemsAfter(a, idx) ==
    IF Len(a.array) > idx
    THEN <<removeItemOp(a, idx)>> \o removeItemsAfter(removeItem(a, idx), idx)
    ELSE <<>>

(***************************************************************************)
(* utils/arrays.js: arraysDiffSequence.  diffLoop is the state of the for  *)
(* loop: [a, index, sequence, status]; diffStep is one iteration (or the   *)
(* trailing removeItemsAfter and return).                                  *)
(***************************************************************************)
diffStart(oldArr) ==
    [a |-> ArrayWithOriginalIndices(oldArr), index |-> 0,
     sequence |-> <<>>, status |-> "loop"]

diffBranch(d, newArr, eqc) ==
    IF d.index >= Len(newArr) THEN "tail"
    ELSE IF isRemoval(d.a, d.index, newArr, eqc) THEN "remove"
    ELSE IF isNoopThrows(d.a, d.index, newArr, eqc) THEN "throw"
    ELSE IF isNoop(d.a, d.index, newArr, eqc) THEN "noop"
    ELSE IF isAddition(d.a, newArr[d.index + 1], d.index, eqc) THEN "add"
    ELSE "move"

diffStep(d, newArr, eqc) ==
    LET b == diffBranch(d, newArr, eqc)
        newItem == newArr[d.index + 1]
    IN  CASE b = "tail" ->
               [d EXCEPT !.sequence = @ \o removeItemsAfter(d.a, Len(newArr)),
                         !.a = [array |-> SubSeq(d.a.array, 1, Len(newArr)),
                                originalIndices |->
                                    SubSeq(d.a.originalIndices, 1, Len(newArr))],
                         !.status = "returned"]
          [] b = "remove" ->
               [d EXCEPT !.sequence = Append(@, removeItemOp(d.a, d.index)),
                         !.a = removeItem(d.a, d.index)]
          [] b = "throw" ->
               [d EXCEPT !.status = "threw"]
          [] b = "noop" ->
               [d EXCEPT !.sequence = Append(@, noopItem(d.a, d.index)),
                         !.index = @ + 1]
          [] b = "add" ->
               [d EXCEPT !.sequence = Append(@, addItemOp(newItem, d.index)),
                         !.a = addItem(d.a, newItem, d.index),
                         !.index = @ + 1]
          [] OTHER ->
               [d EXCEPT !.sequence = Append(@, moveItemOp(d.a, newItem, d.index, eqc)),
                         !.a = moveItem(d.a, newItem, d.index, eqc),
                         !.index = @ + 1]

RECURSIVE diffRun(_, _, _)
diffRun(d, newArr, eqc) ==
    IF d.status # "loop" THEN d
    ELSE diffRun(diffStep(d, newArr, eqc), newArr, eqc)

\* the returned record: .sequence is the result, .status = "threw" when the
\* equality function raised
arraysDiffSequence(oldArr, newArr, eqc) ==
    diffRun(diffStart(oldArr), newArr, eqc)

(***************************************************************************)
(* utils/arrays.js: applyArraysDiffSequence.                               *)
(***************************************************************************)
applyOperation(arr, operation) ==
    CASE operation.op = ARRAY_DIFF_OP.ADD ->
           SpliceIn(arr, operation.index, operation.item)
      [] operation.op = ARRAY_DIFF_OP.REMOVE ->
           SpliceOut(arr, operation.index)
      [] operation.op = ARRAY_DIFF_OP.MOVE ->
           SpliceIn(SpliceOut(arr, operation.from), operation.index,
                    At(arr, operation.from))
      [] OTHER -> arr

RECURSIVE applyArraysDiffSequence(_, _)
applyArraysDiffSequence(oldArr, diffSeq) ==
    IF diffSeq = <<>> THEN oldArr
    ELSE applyArraysDiffSequence(applyOperation(oldArr, Head(diffSeq)), Tail(diffSeq))

(***************************************************************************)
(* dispatcher.js: class Dispatcher.  `d` is the record [subs,              *)
(* afterHandlers]; #subs is a function whose domain is the set of command  *)
(* names that have an entry.  A handler is identified by its name; the     *)
(* function returned by subscribe / afterEveryCommand is the record of     *)
(* what its closure captured.                                              *)
(***************************************************************************)
\* new Dispatcher()
Dispatcher == [subs |-> [c \in {} |-> <<>>], afterHandlers |-> <<>>]

\* () => {}
NoopFn == [kind |-> "noop", commandName |-> "", handler |-> ""]
\* () => { const idx = handlers.indexOf(handler); handlers.splice(idx, 1); }
SubFn(commandName, handler) ==
    [kind |-> "sub", commandName |-> commandName, handler |-> handler]
\* () => { const idx = this.#afterHandlers.indexOf(handler); ...splice(idx, 1); }
AfterFn(handler) == [kind |-> "after", commandName |-> "", handler |-> handler]

subscribe(d, commandName, handler) ==
    LET subs == IF commandName \in DOMAIN d.subs THEN d.subs
                ELSE (commandName :> <<>>) @@ d.subs
        handlers == subs[commandName]
    IN  IF Includes(handlers, handler)
        THEN [d |-> [d EXCEPT !.subs = subs], unsub |-> NoopFn]
        ELSE [d |-> [d EXCEPT !.subs = [subs EXCEPT ![commandName] = Append(@, handler)]],
              unsub |-> SubFn(commandName, handler)]

afterEveryCommand(d, handler) ==
    [d |-> [d EXCEPT !.afterHandlers = Append(@, handler)], unsub |-> AfterFn(handler)]

\* calling a function returned by subscribe or afterEveryCommand
unregister(d, fn) ==
    CASE fn.kind = "noop" -> d
      [] fn.kind = "sub" ->
            [d EXCEPT !.subs[fn.commandName] = SpliceOut(@, IndexOfFrom(@, fn.handler, 0))]
      [] fn.kind = "after" ->
            [d EXCEPT !.afterHandlers = SpliceOut(@, IndexOfFrom(@, fn.handler, 0))]

\* the handlers that un-register themselves when they run
OneShot == {"once", "onceAfter"}

\* what running a handler does to the dispatcher
invoke(d, handler, commandName) ==
    IF handler = "once" THEN unregister(d, SubFn(commandName, handler))
    ELSE IF handler = "onceAfter" THEN unregister(d, AfterFn(handler))
    ELSE d

NoArg == "<no argument>"
Call(handler, arg) == [handler |-> handler, arg |-> arg]

\* handlers.forEach((handler) => handler(payload)): the indices 0 .. len - 1
\* of the length at the start, each element read when its turn comes
RECURSIVE forEachHandler(_, _, _, _, _)
forEachHandler(r, commandName, payload, k, len) ==
    LET handlers == r.d.subs[commandName]
    IN  IF k >= len \/ k >= Len(handlers) THEN r
        ELSE forEachHandler(
                 [r EXCEPT !.d = invoke(r.d, handlers[k + 1], commandName),
                           !.calls = Append(@, Call(handlers[k + 1], payload))],
                 commandName, payload, k + 1, len)

\* this.#afterHandlers.forEach((handler) => handler())
RECURSIVE forEachAfterHandler(_, _, _)
forEachAfterHandler(r, k, len) ==
    LET handlers == r.d.afterHandlers
    IN  IF k >= len \/ k >= Len(handlers) THEN r
        ELSE forEachAfterHandler(
                 [r EXCEPT !.d = invoke(r.d, handlers[k + 1], ""),
                           !.calls = Append(@, Call(handlers[k + 1], NoArg))],
                 k + 1, len)

dispatchAfterFirst(d, commandName, payload) ==
    LET start == [d |-> d, calls |-> <<>>, warned |-> FALSE]
        a == forEachAfterHandler(start, 0, Len(d.afterHandlers))
    IN  IF commandName \in DOMAIN a.d.subs
        THEN forEachHandler(a, commandName, payload, 0, Len(a.d.subs[commandName]))
        ELSE [a EXCEPT !.warned = TRUE]

dispatch(d, commandName, payload) ==
    LET start == [d |-> d, calls |-> <<>>, warned |-> FALSE]
        r == IF commandName \in DOMAIN d.subs
             THEN forEachHandler(start, commandName, payload, 0, Len(d.subs[commandName]))
             ELSE [start EXCEPT !.warned = TRUE]
    IN  forEachAfterHandler(r, 0, Len(r.d.afterHandlers))

(***************************************************************************)
(* The world the tree operations act on: the vnode objects (a heap, so    *)
(* that the in-place assignments of el / listeners are visible through    *)
(* every reference), the DOM surface, the pending exception and a log of  *)
(* the calls made.                                                        *)
(***************************************************************************)
NoErr == "none"

Entry(op, v, el, name, val, idx) ==
    [op |-> op, v |-> v, el |-> el, name |-> name, val |-> val, idx |-> idx]

Log(wd, e) == [wd EXCEPT !.log = Append(@, e)]

Throw(wd, msg) == [wd EXCEPT !.err = msg]

\* a DOM node: a Text or an Element
DomNode(kind, tag, text) ==
    [kind |-> kind, tag |-> tag, text |-> text,
     attrs |-> NoAttrs, classes |-> <<>>, styles |-> NoStyle,
     kids |-> <<>>, parent |-> 0, listeners |-> {}]

\* document.createTextNode / document.createElement: the new handle is
\* Len(result.dom)
createDomNode(wd, kind, tag, text) ==
    [wd EXCEPT !.dom = Append(@, DomNode(kind, tag, text))]

\* the host element the trees are mounted into
Container == 1

\* new Component(props, eventHandlers): the private fields, props and state
\* of the instance; eventHandlers lists the event names of the handlers
Component(props, eventHandlers) ==
    [isMounted |-> FALSE, vdom |-> 0, hostEl |-> 0,
     eventHandlers |-> eventHandlers, d |-> Dispatcher, subscriptions |-> <<>>,
     props |-> props, state |-> 0, mountDOM |-> Absent]

EmptyWorld ==
    [vn |-> <<>>, dom |-> <<DomNode("element", "body", "")>>,
     err |-> NoErr, log |-> <<>>, nextListener |-> 1,
     stash |-> NoListeners, comp |-> Component(0, <<>>)]

RemoveFromSeq(s, x) == SelectSeq(s, LAMBDA y : y # x)

\* detaches el from its parent, if it has one
DomDetach(wd, el) ==
    LET p == wd.dom[el].parent
    IN  IF p = 0 THEN wd
        ELSE [wd EXCEPT !.dom[p].kids = RemoveFromSeq(@, el),
                        !.dom[el].parent = 0]

\* parentEl.append(el)
DomAppend(wd, parentEl, el) ==
    LET d == DomDetach(wd, el)
    IN  Log([d EXCEPT !.dom[parentEl].kids = Append(@, el),
                      !.dom[el].parent = parentEl],
            Entry("append", 0, el, "", "", parentEl))

\* parentEl.insertBefore(el, ref); ref = 0 is null / undefined (append)
DomInsertBefore(wd, parentEl, el, ref) ==
    IF el = 0 \/ parentEl = 0 THEN Throw(wd, "TypeError")
    ELSE IF ref = 0 THEN DomAppend(wd, parentEl, el)
    ELSE IF ref = el THEN Log(wd, Entry("insertBefore", 0, el, "", "", parentEl))
    ELSE LET d == DomDetach(wd, el)
             pos == IndexOfFrom(d.dom[parentEl].kids, ref, 0)
         IN  Log([d EXCEPT !.dom[parentEl].kids = SpliceIn(@, pos, el),
                           !.dom[el].parent = parentEl],
                 Entry("insertBefore", 0, el, "", "", parentEl))

\* el.remove()
DomRemove(wd, el) ==
    IF el = 0 THEN Throw(wd, "TypeError")
    ELSE Log(DomDetach(wd, el), Entry("remove", 0, el, "", "", 0))

\* parentEl.childNodes[index]
childNodeAt(wd, parentEl, idx) == At(wd.dom[parentEl].kids, idx)

(***************************************************************************)
(* mount-dom.js: insert.                                                   *)
(***************************************************************************)
insert(wd, el, parentEl, idx) ==
    IF idx = NullIndex THEN DomAppend(wd, parentEl, el)
    ELSE IF idx < NullIndex THEN Throw(wd, "Index must be a positive integer")
    ELSE IF idx >= Len(wd.dom[parentEl].kids) THEN DomAppend(wd, parentEl, el)
    ELSE DomInsertBefore(wd, parentEl, el, childNodeAt(wd, parentEl, idx))

(***************************************************************************)
(* events: addEventListener, addEventListeners, removeEventListeners.     *)
(* A listener is the boundHandler closure created by addEventListener; it *)
(* is identified by a fresh number and remembers the handler it wraps.    *)
(***************************************************************************)
EventOrder == <<"click", "input">>
AttrOrder == <<"id", "data-x">>
StyleOrder == <<"color">>

\* the listener returned is result.nextListener - 1
addEventListener(wd, eventName, handler, el) ==
    IF el = 0 THEN Throw(wd, "TypeError") ELSE
    LET id == wd.nextListener
    IN  Log([wd EXCEPT !.dom[el].listeners =
                           @ \cup {[ev |-> eventName, id |-> id, h |-> handler]},
                       !.nextListener = id + 1],
            Entry("addEventListener", 0, el, eventName, handler, id))

\* el.removeEventListener(eventName, listener); listener = 0 is undefined
domRemoveEventListener(wd, eventName, listener, el) ==
    IF el = 0 THEN Throw(wd, "TypeError") ELSE
    Log([wd EXCEPT !.dom[el].listeners =
                       {l \in @ : ~(l.ev = eventName /\ l.id = listener)}],
        Entry("removeEventListener", 0, el, eventName, "", listener))

\* returns the world; the added listeners are recorded in `acc`
RECURSIVE addEventListenersFrom(_, _, _, _, _)
addEventListenersFrom(wd, events, el, names, acc) ==
    IF names = <<>> THEN [w |-> wd, added |-> acc]
    ELSE LET name == Head(names)
         IN  IF events[name] = Absent
             THEN addEventListenersFrom(wd, events, el, Tail(names), acc)
             ELSE LET d == addEventListener(wd, name, events[name], el)
                  IN  addEventListenersFrom(d, events, el, Tail(names),
                          [acc EXCEPT ![name] = d.nextListener - 1])

addEventListeners(wd, events, el) ==
    addEventListenersFrom(wd, events, el, EventOrder, NoListeners)

RECURSIVE removeEventListenersFrom(_, _, _, _)
removeEventListenersFrom(wd, listeners, el, names) ==
    IF names = <<>> THEN wd
    ELSE LET name == Head(names)
         IN  IF listeners[name] = 0
             THEN removeEventListenersFrom(wd, listeners, el, Tail(names))
             ELSE removeEventListenersFrom(
                      domRemoveEventListener(wd, name, listeners[name], el),
                      listeners, el, Tail(names))

removeEventListeners(wd, listeners, el) ==
    removeEventListenersFrom(wd, listeners, el, EventOrder)

(***************************************************************************)
(* attributes: setAttributes, setClass, setAttribute, removeAttribute,    *)
(* setStyle, removeStyle.                                                  *)
(***************************************************************************)
BlankStrings == {"", " ", "  "}

isNotBlankOrEmptyString(str) == str \notin BlankStrings

\* a DOMTokenList keeps each token once, in order of first appearance
RECURSIVE TokenListAdd(_, _)
TokenListAdd(tokens, toAdd) ==
    IF toAdd = <<>> THEN tokens
    ELSE TokenListAdd(IF \E k \in 1..Len(tokens) : tokens[k] = Head(toAdd)
                      THEN tokens ELSE Append(tokens, Head(toAdd)),
                      Tail(toAdd))

TokenListRemove(tokens, toRemove) ==
    SelectSeq(tokens, LAMBDA t : ~ \E k \in 1..Len(toRemove) : toRemove[k] = t)

\* el.classList.add(...tokens): an empty or blank token raises
classListAdd(wd, el, tokens) ==
    IF el = 0 THEN Throw(wd, "TypeError") ELSE
    IF \E k \in 1..Len(tokens) : tokens[k] \in BlankStrings
    THEN Throw(wd, "SyntaxError")
    ELSE Log([wd EXCEPT !.dom[el].classes = TokenListAdd(@, tokens)],
             Entry("classList.add", 0, el, "", "", Len(tokens)))

classListRemove(wd, el, tokens) ==
    IF el = 0 THEN Throw(wd, "TypeError") ELSE
    IF \E k \in 1..Len(tokens) : tokens[k] \in BlankStrings
    THEN Throw(wd, "SyntaxError")
    ELSE Log([wd EXCEPT !.dom[el].classes = TokenListRemove(@, tokens)],
             Entry("classList.remove", 0, el, "", "", Len(tokens)))

\* el.className = str: the tokens of the string
setClassName(wd, el, parts) ==
    Log([wd EXCEPT !.dom[el].classes =
             TokenListAdd(<<>>, SelectSeq(parts, isNotBlankOrEmptyString))],
        Entry("className", 0, el, "", "", Len(parts)))

setClass(wd, el, className) ==
    IF className.isArray
    THEN classListAdd(setClassName(wd, el, <<>>), el, className.parts)
    ELSE setClassName(setClassName(wd, el, <<>>), el, className.parts)

removeAttribute(wd, el, name) ==
    IF el = 0 THEN Throw(wd, "TypeError") ELSE
    Log([wd EXCEPT !.dom[el].attrs[name] = Absent],
        Entry("removeAttribute", 0, el, name, "", 0))

setAttributeAnyValue(wd, el, name, value) ==
    IF el = 0 THEN Throw(wd, "TypeError") ELSE
    Log([wd EXCEPT !.dom[el].attrs[name] = value],
        Entry("setAttribute", 0, el, name, value, 0))

setAttribute(wd, el, name, value) ==
    IF el = 0 THEN Throw(wd, "TypeError") ELSE
    IF value = Null THEN removeAttribute(wd, el, name)
    ELSE Log([wd EXCEPT !.dom[el].attrs[name] = value],
             Entry("setAttribute", 0, el, name, value, 0))

\* the value a call without the argument passes
Undefined == "<undefined>"

\* el.style[name] = value: null clears, an invalid value is ignored
setStyle(wd, el, name, value) ==
    IF el = 0 THEN Throw(wd, "TypeError") ELSE
    Log([wd EXCEPT !.dom[el].styles[name] =
             IF value = Null THEN Absent
             ELSE IF value = Undefined THEN @
             ELSE value],
        Entry("setStyle", 0, el, name, value, 0))

removeStyle(wd, el, name) ==
    IF el = 0 THEN Throw(wd, "TypeError") ELSE
    Log([wd EXCEPT !.dom[el].styles[name] = Absent],
        Entry("removeStyle", 0, el, name, "", 0))

RECURSIVE setStylesFrom(_, _, _, _)
setStylesFrom(wd, el, style, names) ==
    IF names = <<>> THEN wd
    ELSE setStylesFrom(
             IF style[Head(names)] = Absent THEN wd
             ELSE setStyle(wd, el, Head(names), style[Head(names)]),
             el, style, Tail(names))

RECURSIVE setOtherAttrsFrom(_, _, _, _)
setOtherAttrsFrom(wd, el, attrs, names) ==
    IF names = <<>> THEN wd
    ELSE setOtherAttrsFrom(
             IF attrs[Head(names)] = Absent THEN wd
             ELSE setAttribute(wd, el, Head(names), attrs[Head(names)]),
             el, attrs, Tail(names))

\* `if (className)`: a non-empty string or any array
classIsTruthy(className) == className.isArray \/ className.parts # <<>>

setAttributes(wd, el, n) ==
    LET c == IF classIsTruthy(n.class) THEN setClass(wd, el, n.class) ELSE wd
        s == IF c.err # NoErr THEN c ELSE setStylesFrom(c, el, n.style, StyleOrder)
    IN  IF s.err # NoErr THEN s ELSE setOtherAttrsFrom(s, el, n.attrs, AttrOrder)

(***************************************************************************)
(* h.js: extractChildren, the children of a node with nested fragments    *)
(* flattened.                                                              *)
(***************************************************************************)
RECURSIVE extractChildrenOf(_, _)
extractChildrenOf(vn, children) ==
    IF children = <<>> THEN <<>>
    ELSE LET child == Head(children)
         IN  (IF vn[child].type = DOM_TYPES.FRAGMENT
              THEN extractChildrenOf(vn, vn[child].children)
              ELSE <<child>>)
             \o extractChildrenOf(vn, Tail(children))

extractChildren(vn, v) == extractChildrenOf(vn, vn[v].children)

(***************************************************************************)
(* mount-dom.js: mountDOM and the create* functions.  Every function      *)
(* takes the world first and returns the world; once an exception is      *)
(* pending (err # NoErr) nothing more is executed.                        *)
(***************************************************************************)
RECURSIVE mountDOM(_, _, _, _)
RECURSIVE createComponentNode(_, _, _, _)
RECURSIVE mountElementChildren(_, _, _)
RECURSIVE mountFragmentChildren(_, _, _, _, _)

createTextNode(wd, v, parentEl, idx) ==
    LET d == createDomNode(wd, "text", "", wd.vn[v].value)
        textNode == Len(d.dom)
    IN  insert([d EXCEPT !.vn[v].el = textNode], textNode, parentEl, idx)

\* index ? index + i : null
fragmentChildIndex(idx, i) ==
    IF idx = NullIndex \/ idx = 0 THEN NullIndex ELSE idx + i

createFragmentNodes(wd, v, parentEl, idx) ==
    mountFragmentChildren([wd EXCEPT !.vn[v].el = parentEl],
                          wd.vn[v].children, 0, parentEl, idx)

mountFragmentChildren(wd, children, i, parentEl, idx) ==
    IF wd.err # NoErr \/ i >= Len(children) THEN wd
    ELSE mountFragmentChildren(
             mountDOM(wd, children[i + 1], parentEl, fragmentChildIndex(idx, i)),
             children, i + 1, parentEl, idx)

addProps(wd, el, v) ==
    LET r == addEventListeners(wd, wd.vn[v].on, el)
        d == [r.w EXCEPT !.vn[v].listeners = r.added,
                         !.vn[v].hasListeners = TRUE]
    IN  setAttributes(d, el, wd.vn[v])

createElementNode(wd, v, parentEl, idx) ==
    LET c == createDomNode(wd, "element", wd.vn[v].tag, "")
        element == Len(c.dom)
        p == addProps(c, element, v)
        e == IF p.err # NoErr THEN p ELSE [p EXCEPT !.vn[v].el = element]
        k == mountElementChildren(e, wd.vn[v].children, element)
    IN  IF k.err # NoErr THEN k ELSE insert(k, element, parentEl, idx)

mountElementChildren(wd, children, element) ==
    IF wd.err # NoErr \/ children = <<>> THEN wd
    ELSE mountElementChildren(mountDOM(wd, Head(children), element, NullIndex),
                              Tail(children), element)

mountDOM(wd, v, parentEl, idx) ==
    IF wd.err # NoErr THEN wd
    ELSE IF parentEl = 0 THEN Throw(wd, "TypeError")
    ELSE LET l == Log(wd, Entry("mountDOM", v, parentEl, "", "", idx))
             type == wd.vn[v].type
         IN  CASE type = DOM_TYPES.TEXT -> createTextNode(l, v, parentEl, idx)
               [] type = DOM_TYPES.ELEMENT -> createElementNode(l, v, parentEl, idx)
               [] type = DOM_TYPES.FRAGMENT -> createFragmentNodes(l, v, parentEl, idx)
               [] type = DOM_TYPES_COMPONENT -> createComponentNode(l, v, parentEl, idx)
               [] OTHER -> Throw(l, "Can't mount DOM of type")

(***************************************************************************)
(* destroy-dom.js: destroyDOM, removeTextNode, removeElementNode,         *)
(* removeFragmentNodes.                                                    *)
(***************************************************************************)
RECURSIVE destroyDOM(_, _)
RECURSIVE destroyChildren(_, _)

destroyChildren(wd, children) ==
    IF wd.err # NoErr \/ children = <<>> THEN wd
    ELSE destroyChildren(destroyDOM(wd, Head(children)), Tail(children))

removeTextNode(wd, v) == DomRemove(wd, wd.vn[v].el)

removeElementNodeKeepsChildren(wd, v) ==
    LET el == wd.vn[v].el
        r == DomRemove(wd, el)
    IN  IF r.err # NoErr THEN r
        ELSE IF wd.vn[v].hasListeners
        THEN [removeEventListeners(r, wd.vn[v].listeners, el)
                 EXCEPT !.vn[v].hasListeners = FALSE,
                        !.vn[v].listeners = NoListeners]
        ELSE r

removeElementNode(wd, v) ==
    LET el == wd.vn[v].el
        r == DomRemove(wd, el)
        c == destroyChildren(r, wd.vn[v].children)
    IN  IF c.err # NoErr THEN c
        ELSE IF wd.vn[v].hasListeners
        THEN [removeEventListeners(c, wd.vn[v].listeners, el)
                 EXCEPT !.vn[v].hasListeners = FALSE,
                        !.vn[v].listeners = NoListeners]
        ELSE c

removeFragmentNodes(wd, v) == destroyChildren(wd, wd.vn[v].children)

destroyDOM(wd, v) ==
    IF wd.err # NoErr THEN wd
    ELSE IF v = Undef THEN Throw(wd, "TypeError")
    ELSE LET l == Log(wd, Entry("destroyDOM", v, wd.vn[v].el, "", "", 0))
             type == wd.vn[v].type
             r == CASE type = DOM_TYPES.TEXT -> removeTextNode(l, v)
                    [] type = DOM_TYPES.ELEMENT -> removeElementNode(l, v)
                    [] type = DOM_TYPES.FRAGMENT -> removeFragmentNodes(l, v)
                    [] OTHER -> Throw(l, "Can't destroy DOM of type")
         IN  IF r.err # NoErr THEN r ELSE [r EXCEPT !.vn[v].el = 0]

(***************************************************************************)
(* utils/objects.js: objectsDiff, over the keys in their listed order.    *)
(***************************************************************************)
objectsDiff(oldObj, newObj, names) ==
    [added   |-> SelectSeq(names, LAMBDA k : newObj[k] # Absent /\ oldObj[k] = Absent),
     removed |-> SelectSeq(names, LAMBDA k : oldObj[k] # Absent /\ newObj[k] = Absent),
     updated |-> SelectSeq(names, LAMBDA k : /\ newObj[k] # Absent
                                             /\ oldObj[k] # Absent
                                             /\ oldObj[k] # newObj[k])]

(***************************************************************************)
(* utils/arrays.js: arraysDiff.                                            *)
(***************************************************************************)
arraysDiffNothingRemoved(oldArr, newArr) ==
    [added   |-> SelectSeq(newArr, LAMBDA x : ~Includes(oldArr, x)),
     removed |-> <<>>]

arraysDiff(oldArr, newArr) ==
    [added   |-> SelectSeq(newArr, LAMBDA x : ~Includes(oldArr, x)),
     removed |-> SelectSeq(oldArr, LAMBDA x : ~Includes(newArr, x))]

(***************************************************************************)
(* patch-dom.js.                                                           *)
(***************************************************************************)
findIndexInParent(wd, parentEl, el) ==
    LET idx == IndexOfFrom(wd.dom[parentEl].kids, el, 0)
    IN  IF idx < 0 THEN NullIndex ELSE idx

patchTextKeepsValue(wd, oldV, newV) == wd

patchText(wd, oldV, newV) ==
    LET el == wd.vn[oldV].el
    IN  IF wd.vn[oldV].value # wd.vn[newV].value
        THEN IF el = 0 THEN Throw(wd, "TypeError") ELSE
             Log([wd EXCEPT !.dom[el].text = wd.vn[newV].value],
                 Entry("nodeValue", newV, el, "", wd.vn[newV].value, 0))
        ELSE wd

RECURSIVE removeAttrsFrom(_, _, _)
removeAttrsFrom(wd, el, names) ==
    IF names = <<>> THEN wd
    ELSE removeAttrsFrom(removeAttribute(wd, el, Head(names)), el, Tail(names))

RECURSIVE setAttrsFrom(_, _, _, _)
setAttrsFrom(wd, el, newAttrs, names) ==
    IF names = <<>> THEN wd
    ELSE setAttrsFrom(setAttribute(wd, el, Head(names), newAttrs[Head(names)]),
                      el, newAttrs, Tail(names))

patchAttrs(wd, el, oldAttrs, newAttrs) ==
    LET diff == objectsDiff(oldAttrs, newAttrs, AttrOrder)
    IN  setAttrsFrom(removeAttrsFrom(wd, el, diff.removed),
                     el, newAttrs, diff.added \o diff.updated)

\* a string is kept as its pieces: split(/(\s+)/) returns the tokens and the
\* separators between them
toClassList(classes) == SelectSeq(classes.parts, isNotBlankOrEmptyString)

patchClasses(wd, el, oldClass, newClass) ==
    LET diff == arraysDiff(toClassList(oldClass), toClassList(newClass))
        r == IF Len(diff.removed) > 0 THEN classListRemove(wd, el, diff.removed)
             ELSE wd
    IN  IF Len(diff.added) > 0 THEN classListAdd(r, el, diff.added) ELSE r

RECURSIVE removeStylesFrom(_, _, _)
removeStylesFrom(wd, el, names) ==
    IF names = <<>> THEN wd
    ELSE removeStylesFrom(removeStyle(wd, el, Head(names)), el, Tail(names))

\* setStyle(el, style) is called without the value
RECURSIVE setStylesUndefinedFrom(_, _, _)
setStylesUndefinedFrom(wd, el, names) ==
    IF names = <<>> THEN wd
    ELSE setStylesUndefinedFrom(setStyle(wd, el, Head(names), Undefined),
                                el, Tail(names))

patchStyles(wd, el, oldStyle, newStyle) ==
    LET diff == objectsDiff(oldStyle, newStyle, StyleOrder)
    IN  setStylesUndefinedFrom(removeStylesFrom(wd, el, diff.removed),
                               el, diff.added \o diff.updated)

RECURSIVE detachFrom(_, _, _, _)
detachFrom(wd, el, oldListeners, names) ==
    IF names = <<>> THEN wd
    ELSE detachFrom(
             domRemoveEventListener(wd, Head(names), oldListeners[Head(names)], el),
             el, oldListeners, Tail(names))

\* addEventListener[eventName] = listener: the listener is stored on the
\* function object, not in addedEventListeners
RECURSIVE attachFrom(_, _, _, _)
attachFrom(wd, el, newEvents, names) ==
    IF names = <<>> THEN wd
    ELSE LET d == addEventListener(wd, Head(names), newEvents[Head(names)], el)
         IN  attachFrom([d EXCEPT !.stash[Head(names)] = d.nextListener - 1],
                        el, newEvents, Tail(names))

\* returns the world and the object patchEvents returns
patchEvents(wd, el, oldListeners, oldEvents, newEvents) ==
    LET diff == objectsDiff(oldEvents, newEvents, EventOrder)
        r == detachFrom(wd, el, oldListeners, diff.removed \o diff.updated)
        a == attachFrom(r, el, newEvents, diff.added \o diff.updated)
    IN  [w |-> a, addedEventListeners |-> NoListeners]

patchElement(wd, oldV, newV) ==
    LET el == wd.vn[oldV].el
        o == wd.vn[oldV]
        n == wd.vn[newV]
        a == patchAttrs(wd, el, o.attrs, n.attrs)
        c == IF a.err # NoErr THEN a ELSE patchClasses(a, el, o.class, n.class)
        s == IF c.err # NoErr THEN c ELSE patchStyles(c, el, o.style, n.style)
        e == patchEvents(s, el, o.listeners, o.on, n.on)
    IN  IF s.err # NoErr THEN s
        ELSE [e.w EXCEPT !.vn[newV].listeners = e.addedEventListeners,
                         !.vn[newV].hasListeners = TRUE]

RECURSIVE patchDOM(_, _, _, _)
RECURSIVE applyDiffSeq(_, _, _, _, _)

\* one operation of the for loop of patchChildren
patchOperation(wd, operation, oldChildren, newChildren, parentEl) ==
    CASE operation.op = ARRAY_DIFF_OP.ADD ->
           mountDOM(wd, operation.item, parentEl, operation.index)
      [] operation.op = ARRAY_DIFF_OP.REMOVE ->
           destroyDOM(wd, operation.item)
      [] operation.op = ARRAY_DIFF_OP.NOOP ->
           LET oldChild == At(oldChildren, operation.originalIndex)
               newChild == At(newChildren, operation.index)
               el == IF oldChild = Undef THEN 0 ELSE wd.vn[oldChild].el
               elAtTargetIndex ==
                   IF parentEl = 0 THEN 0
                   ELSE childNodeAt(wd, parentEl, operation.index)
               i == IF oldChild = Undef THEN Throw(wd, "TypeError")
                    ELSE DomInsertBefore(wd, parentEl, el, elAtTargetIndex)
           IN  patchDOM(i, oldChild, newChild, parentEl)
      [] OTHER ->
           patchDOM(wd, At(oldChildren, operation.originalIndex),
                    At(newChildren, operation.index), parentEl)

applyDiffSeqLastFirst(wd, diffSeq, oldChildren, newChildren, parentEl) ==
    IF wd.err # NoErr \/ diffSeq = <<>> THEN wd
    ELSE patchOperation(
             applyDiffSeq(wd, Tail(diffSeq), oldChildren, newChildren, parentEl),
             Head(diffSeq), oldChildren, newChildren, parentEl)

applyDiffSeq(wd, diffSeq, oldChildren, newChildren, parentEl) ==
    IF wd.err # NoErr \/ diffSeq = <<>> THEN wd
    ELSE applyDiffSeq(
             patchOperation(wd, Head(diffSeq), oldChildren, newChildren, parentEl),
             Tail(diffSeq), oldChildren, newChildren, parentEl)

patchChildren(wd, oldV, newV) ==
    LET oldChildren == extractChildren(wd.vn, oldV)
        newChildren == extractChildren(wd.vn, newV)
        parentEl == wd.vn[oldV].el
        diff == arraysDiffSequence(oldChildren, newChildren, EqCtx("nodes", wd.vn))
    IN  IF diff.status = "threw" THEN Throw(wd, "TypeError")
        ELSE applyDiffSeq(Log(wd, Entry("patchChildren", newV, parentEl, "", "",
                                        Len(diff.sequence))),
                          diff.sequence, oldChildren, newChildren, parentEl)

\* patchDOM without `newVdom.el = oldVdom.el`
patchDOMDropsHandle(wd, oldV, newV, parentEl) ==
    IF wd.err # NoErr THEN wd
    ELSE IF oldV = Undef \/ newV = Undef THEN Throw(wd, "TypeError")
    ELSE IF ~areNodesEqual(wd.vn[oldV], wd.vn[newV])
    THEN LET idx == findIndexInParent(wd, parentEl, wd.vn[oldV].el)
         IN  mountDOM(destroyDOM(Log(wd, Entry("replace", newV, parentEl, "", "", idx)),
                                 oldV),
                      newV, parentEl, idx)
    ELSE LET t == Log(wd, Entry("patchDOM", newV, wd.vn[oldV].el, "", "", oldV))
             type == wd.vn[newV].type
         IN  IF type = DOM_TYPES.TEXT THEN patchText(t, oldV, newV)
             ELSE IF type = DOM_TYPES.ELEMENT
             THEN LET e == patchElement(t, oldV, newV)
                  IN  IF e.err # NoErr THEN e ELSE patchChildren(e, oldV, newV)
             ELSE patchChildren(t, oldV, newV)

patchDOM(wd, oldV, newV, parentEl) ==
    IF wd.err # NoErr THEN wd
    ELSE IF oldV = Undef \/ newV = Undef THEN Throw(wd, "TypeError")
    ELSE IF ~areNodesEqual(wd.vn[oldV], wd.vn[newV])
    THEN LET idx == findIndexInParent(wd, parentEl, wd.vn[oldV].el)
         IN  mountDOM(destroyDOM(Log(wd, Entry("replace", newV, parentEl, "", "", idx)),
                                 oldV),
                      newV, parentEl, idx)
    ELSE LET t == Log([wd EXCEPT !.vn[newV].el = wd.vn[oldV].el],
                      Entry("patchDOM", newV, wd.vn[oldV].el, "", "", oldV))
             type == wd.vn[newV].type
         IN  IF type = DOM_TYPES.TEXT THEN patchText(t, oldV, newV)
             ELSE IF type = DOM_TYPES.ELEMENT
             THEN LET e == patchElement(t, oldV, newV)
                  IN  IF e.err # NoErr THEN e ELSE patchChildren(e, oldV, newV)
             ELSE patchChildren(t, oldV, newV)

(***************************************************************************)
(* The trees a render produces.  h() allocates the vnode objects: alloc   *)
(* stores a description in the heap, children first; the root is the last *)
(* object, Len(result.vn).                                                 *)
(***************************************************************************)
RECURSIVE alloc(_, _)
RECURSIVE allocChildren(_, _, _)

allocChildren(wd, children, ids) ==
    IF children = <<>> THEN [w |-> wd, ids |-> ids]
    ELSE LET a == alloc(wd, Head(children))
         IN  allocChildren(a, Tail(children), Append(ids, Len(a.vn)))

alloc(wd, t) ==
    LET c == allocChildren(wd, t.children, <<>>)
    IN  [c.w EXCEPT !.vn = Append(@, [t EXCEPT !.children = c.ids])]

Str(parts) == [isArray |-> FALSE, parts |-> parts]
Arr(parts) == [isArray |-> TRUE, parts |-> parts]

On(click, input) == [e \in EventNames |-> IF e = "click" THEN click ELSE input]
Attrs(id, data) == [a \in AttrNames |-> IF a = "id" THEN id ELSE data]
Style(color) == [s \in StyleNames |-> color]

A == hKey("a", "1")
B == hKey("b", "2")
C == hKey("c", "3")
D == hKey("d", "4")

Button(handler) ==
    h("button", Absent, NoAttrs, NoClass, NoStyle, On(handler, Absent), <<hString("ok")>>)

Trees ==
    { hString("hi"),
      hString("bye"),
      hTag("div", <<>>),
      hTag("div", <<A, B>>),
      hTag("div", <<B, A>>),
      hTag("div", <<A, B, C>>),
      hTag("div", <<C, A, D>>),
      hTag("div", <<hString("hi")>>),
      hFragment(<<A, B>>),
      hFragment(<<B, A>>),
      hFragment(<<A, hFragment(<<B, C>>)>>),
      h("button", Absent, Attrs("x", Absent), Str(<<"foo", " ", "bar">>),
        Style("red"), On("f1", Absent), <<>>),
      h("button", Absent, Attrs("y", "d"), Arr(<<"bar", "baz">>),
        Style("blue"), On("f2", Absent), <<>>),
      h("button", Absent, NoAttrs, NoClass, NoStyle, On("f3", "g1"), <<>>),
      hTag("div", <<Button("f1")>>),
      hTag("div", <<Button("f2"), hString("hi")>>) }

(***************************************************************************)
(* The observable surface below a DOM node: structure, child order, text, *)
(* attributes, classes and styles.                                        *)
(***************************************************************************)
RECURSIVE Surface(_, _)
Surface(wd, el) ==
    LET n == wd.dom[el]
    IN  [kind |-> n.kind, tag |-> n.tag, text |-> n.text, attrs |-> n.attrs,
         classes |-> {n.classes[k] : k \in 1..Len(n.classes)},
         styles |-> n.styles,
         kids |-> [k \in 1..Len(n.kids) |-> Surface(wd, n.kids[k])]]

\* the vnodes of the subtree of v, v included
RECURSIVE Subtree(_, _)
Subtree(vn, v) ==
    {v} \cup UNION {Subtree(vn, vn[v].children[k]) : k \in 1..Len(vn[v].children)}

\* the listeners attached to the handle el for the event name
AttachedFor(wd, el, eventName) == {l \in wd.dom[el].listeners : l.ev = eventName}

\* no dispatcher call was made
NoCall ==
    [op |-> "init", commandName |-> "", handler |-> "", payload |-> "",
     fn |-> NoopFn, before |-> Dispatcher, liveBefore |-> {},
     calls |-> <<>>, warned |-> FALSE]

\* createApp was not called
NoApp == [state |-> 0, vdom |-> 0, parentEl |-> 0, subscriptions |-> <<>>]

DispatchIdle ==
    /\ dispatcher = Dispatcher
    /\ issued = {}
    /\ live = {}
    /\ lastCall = NoCall
    /\ app = NoApp

(***************************************************************************)
(* Specification of the tree operations: a host container, possibly with  *)
(* two foreign children, into which a tree is mounted, patched against    *)
(* new renders and destroyed.                                             *)
(***************************************************************************)
ForeignWorld ==
    LET a == createDomNode(EmptyWorld, "element", "header", "")
        b == createDomNode(a, "element", "footer", "")
    IN  [b EXCEPT !.dom[Container].kids = <<2, 3>>,
                  !.dom[2].parent = Container,
                  !.dom[3].parent = Container]

ResetLog(wd) == [wd EXCEPT !.log = <<>>]

NoOp == [op |-> "init", old |-> 0, new |-> 0, idx |-> NullIndex]

\* areNodesEqual is not being called
EqIdle ==
    /\ argOne = hString("")
    /\ argTwo = hString("")
    /\ eqModule = "nodes-equal.js"
    /\ eqResult = "pending"

DiffIdle ==
    /\ oldArray = <<>>
    /\ newArray = <<>>
    /\ equalsFn = "identity"
    /\ array = ArrayWithOriginalIndices(<<>>)
    /\ index = 0
    /\ sequence = <<>>
    /\ dpc = "idle"
    /\ applied = <<>>

Init ==
    /\ DispatchIdle
    /\ DiffIdle
    /\ EqIdle
    /\ w \in {EmptyWorld, ForeignWorld}
    /\ cur = 0
    /\ before = w
    /\ lastOp = NoOp
    /\ patches = 0

\* mountDOM(view, container, index)
Mount(t, idx) ==
    /\ lastOp.op = "init"
    /\ idx = NullIndex \/ idx < Len(w.dom[Container].kids)
    /\ LET a == alloc(w, t)
           root == Len(a.vn)
       IN  /\ before' = a
           /\ w' = mountDOM(a, root, Container, idx)
           /\ cur' = root
           /\ lastOp' = [op |-> "mount", old |-> 0, new |-> root, idx |-> idx]
    /\ UNCHANGED <<patches, dvars, evars, pvars>>

\* vdom = patchDOM(vdom, render(), container)
Patch(t) ==
    /\ cur # 0
    /\ lastOp.op \in {"mount", "patch", "foreign"}
    /\ w.err = NoErr
    /\ patches < MaxPatches
    /\ LET a == alloc(ResetLog(w), t)
           root == Len(a.vn)
           r == patchDOM(a, cur, root, Container)
       IN  /\ before' = a
           /\ w' = r
           /\ cur' = IF r.err = NoErr THEN root ELSE cur
           /\ lastOp' = [op |-> "patch", old |-> cur, new |-> root, idx |-> lastOp.idx]
    /\ patches' = patches + 1
    /\ UNCHANGED <<dvars, evars, pvars>>

\* patchDOM(null, render(), container): nothing is mounted yet
PatchAbsent(t) ==
    /\ lastOp.op = "init"
    /\ LET a == alloc(w, t)
           root == Len(a.vn)
       IN  /\ before' = a
           /\ w' = patchDOM(a, Undef, root, Container)
           /\ cur' = 0
           /\ lastOp' = [op |-> "patchAbsent", old |-> 0, new |-> root, idx |-> NullIndex]
    /\ UNCHANGED <<patches, dvars, evars, pvars>>

\* destroyDOM(vdom)
Destroy ==
    /\ cur # 0
    /\ lastOp.op \in {"mount", "patch"}
    /\ w.err = NoErr
    /\ before' = ResetLog(w)
    /\ w' = destroyDOM(ResetLog(w), cur)
    /\ lastOp' = [op |-> "destroy", old |-> cur, new |-> 0, idx |-> lastOp.idx]
    /\ UNCHANGED <<cur, patches, dvars, evars, pvars>>

Next ==
    \/ \E t \in Trees, idx \in {NullIndex, 1} : Mount(t, idx)
    \/ \E t \in Trees : Patch(t)
    \/ \E t \in Trees : PatchAbsent(t)
    \/ Destroy

Spec == Init /\ [][Next]_vars

(***************************************************************************)
(* Specification of the props of one element: a p element is mounted with *)
(* one of the prop sets PropTrees and patched against the others; between *)
(* the calls other code may add a class token of its own to the handle.   *)
(***************************************************************************)
PropsOf(attrs, class, style) == h("p", Absent, attrs, class, style, NoEvents, <<>>)

PropTrees ==
    { PropsOf(NoAttrs, NoClass, NoStyle),
      PropsOf(Attrs("x", Absent), NoClass, NoStyle),
      PropsOf(Attrs("y", Absent), NoClass, NoStyle),
      PropsOf(Attrs("x", "d"), NoClass, NoStyle),
      PropsOf(Attrs(Null, "d"), NoClass, NoStyle),
      PropsOf(NoAttrs, Str(<<"foo", " ", "bar">>), NoStyle),
      PropsOf(NoAttrs, Arr(<<"bar", "baz">>), NoStyle),
      PropsOf(NoAttrs, Str(<<"bar", "  ", "baz">>), NoStyle),
      PropsOf(NoAttrs, Arr(<<"foo", "", "bar">>), NoStyle),
      PropsOf(NoAttrs, NoClass, Style("red")),
      PropsOf(NoAttrs, NoClass, Style("blue")),
      PropsOf(Attrs("x", Absent), Str(<<"foo", " ", "bar">>), Style("red")),
      PropsOf(Attrs("y", "d"), Arr(<<"bar", "baz">>), Style("blue")) }

\* a class token that no vnode lists
ForeignToken == "ext"

InitProps ==
    /\ DispatchIdle
    /\ DiffIdle
    /\ EqIdle
    /\ w = EmptyWorld
    /\ cur = 0
    /\ before = w
    /\ lastOp = NoOp
    /\ patches = 0

\* code outside the runtime: el.classList.add('ext') on the mounted handle
ForeignClass ==
    /\ cur # 0
    /\ lastOp.op \in {"mount", "patch"}
    /\ w.err = NoErr
    /\ w.vn[cur].type = DOM_TYPES.ELEMENT
    /\ ~Includes(w.dom[w.vn[cur].el].classes, ForeignToken)
    /\ before' = w
    /\ w' = [w EXCEPT !.dom[w.vn[cur].el].classes = TokenListAdd(@, <<ForeignToken>>)]
    /\ lastOp' = [lastOp EXCEPT !.op = "foreign"]
    /\ UNCHANGED <<cur, patches, dvars, evars, pvars>>

NextProps ==
    \/ \E t \in PropTrees : Mount(t, NullIndex)
    \/ \E t \in PropTrees : Patch(t)
    \/ ForeignClass

SpecProps == InitProps /\ [][NextProps]_vars

(***************************************************************************)
(* Specification of the calls outside the contract: nodes whose type is   *)
(* none of DOM_TYPES, old trees that were never mounted, and an old tree  *)
(* mounted under another element than the container given to patchDOM.    *)
(***************************************************************************)
\* a node object whose type is none of DOM_TYPES, with no children
hUnknown ==
    VNode("portal", "", Absent, "", NoAttrs, NoClass, NoStyle, NoEvents, <<>>)

MisuseTrees ==
    { hString("hi"),
      hString("bye"),
      hTag("div", <<>>),
      hTag("div", <<hString("hi")>>),
      hFragment(<<>>),
      hFragment(<<A>>),
      hUnknown,
      hTag("div", <<hUnknown>>) }

\* patchDOM(oldVdom, newVdom, container) with an oldVdom that was never mounted
PatchUnmounted(t1, t2) ==
    /\ lastOp.op = "init"
    /\ LET a1 == alloc(w, t1)
           old == Len(a1.vn)
           a2 == alloc(a1, t2)
           new == Len(a2.vn)
       IN  /\ before' = a2
           /\ w' = patchDOM(a2, old, new, Container)
           /\ lastOp' = [op |-> "patchUnmounted", old |-> old, new |-> new,
                         idx |-> NullIndex]
    /\ UNCHANGED <<cur, patches, dvars, evars, pvars>>

\* destroyDOM(vdom) with a vdom that was never mounted
DestroyUnmounted(t) ==
    /\ lastOp.op = "init"
    /\ LET a == alloc(w, t)
           root == Len(a.vn)
       IN  /\ before' = a
           /\ w' = destroyDOM(a, root)
           /\ lastOp' = [op |-> "destroyUnmounted", old |-> root, new |-> 0,
                         idx |-> NullIndex]
    /\ UNCHANGED <<cur, patches, dvars, evars, pvars>>

\* mountDOM(vdom, other): the tree is mounted under the first child of the
\* container instead of the container
MountElsewhere(t) ==
    /\ lastOp.op = "init"
    /\ w.dom[Container].kids # <<>>
    /\ LET a == alloc(w, t)
           root == Len(a.vn)
       IN  /\ before' = a
           /\ w' = mountDOM(a, root, w.dom[Container].kids[1], NullIndex)
           /\ cur' = root
           /\ lastOp' = [op |-> "mountElsewhere", old |-> 0, new |-> root,
                         idx |-> NullIndex]
    /\ UNCHANGED <<patches, dvars, evars, pvars>>

\* patchDOM(vdom, render(), container) for the tree mounted elsewhere
PatchWrongContainer(t) ==
    /\ lastOp.op = "mountElsewhere"
    /\ w.err = NoErr
    /\ LET a == alloc(ResetLog(w), t)
           root == Len(a.vn)
       IN  /\ before' = a
           /\ w' = patchDOM(a, cur, root, Container)
           /\ lastOp' = [op |-> "patchWrongContainer", old |-> cur, new |-> root,
                         idx |-> NullIndex]
    /\ UNCHANGED <<cur, patches, dvars, evars, pvars>>

NextMisuse ==
    \/ \E t \in MisuseTrees : Mount(t, NullIndex)
    \/ \E t \in MisuseTrees : Patch(t)
    \/ \E t1 \in MisuseTrees, t2 \in MisuseTrees : PatchUnmounted(t1, t2)
    \/ \E t \in MisuseTrees : DestroyUnmounted(t)
    \/ \E t \in MisuseTrees : MountElsewhere(t)
    \/ \E t \in MisuseTrees : PatchWrongContainer(t)

SpecMisuse == Init /\ [][NextMisuse]_vars

(***************************************************************************)
(* Specification of the differ: arraysDiffSequence(oldArray, newArray,    *)
(* equalsFn) run one loop iteration at a time on every pair of sequences  *)
(* of at most MaxLen items, then applyArraysDiffSequence on the result.   *)
(* The items are references to the vnodes DiffNodes; under areNodesEqual  *)
(* the first two are equivalent (same tag), under identity none are.      *)
(***************************************************************************)
DiffNodes == <<hKey("li", "1"), hKey("li", "2"), hKey("p", "3"), hString("t")>>

Items == 1..Len(DiffNodes)

RECURSIVE SeqsUpTo(_, _)
SeqsUpTo(S, n) ==
    IF n = 0 THEN {<<>>}
    ELSE LET shorter == SeqsUpTo(S, n - 1)
         IN  shorter \cup {Append(s, x) : s \in {t \in shorter : Len(t) = n - 1}, x \in S}

equalsCtx == EqCtx(equalsFn, DiffNodes)

TreeIdle ==
    /\ w = EmptyWorld
    /\ cur = 0
    /\ before = EmptyWorld
    /\ lastOp = NoOp
    /\ patches = 0

InitDiff ==
    /\ DispatchIdle
    /\ TreeIdle
    /\ EqIdle
    /\ oldArray \in SeqsUpTo(Items, MaxLen)
    /\ newArray \in SeqsUpTo(Items, MaxLen)
    /\ equalsFn \in EqModes
    /\ array = ArrayWithOriginalIndices(oldArray)
    /\ index = 0
    /\ sequence = <<>>
    /\ dpc = "loop"
    /\ applied = <<>>

diffState == [a |-> array, index |-> index, sequence |-> sequence, status |-> dpc]

\* one pass through the body of the for loop that takes the given branch
DiffIteration(branch) ==
    /\ dpc = "loop"
    /\ diffBranch(diffState, newArray, equalsCtx) = branch
    /\ LET d == diffStep(diffState, newArray, equalsCtx)
       IN  /\ array' = d.a
           /\ index' = d.index
           /\ sequence' = d.sequence
           /\ dpc' = d.status
    /\ UNCHANGED <<oldArray, newArray, equalsFn, applied, tvars, evars, pvars>>

DiffRemove == DiffIteration("remove")
DiffNoop == DiffIteration("noop")
DiffAdd == DiffIteration("add")
DiffMove == DiffIteration("move")
\* the equality function raises: arraysDiffSequence does not return
DiffThrow == DiffIteration("throw")
\* sequence.push(...array.removeItemsAfter(newArray.length)); return sequence
DiffReturn == DiffIteration("tail")

\* applyArraysDiffSequence([...oldArray], sequence)
DiffApply ==
    /\ dpc = "returned"
    /\ applied' = applyArraysDiffSequence(oldArray, sequence)
    /\ dpc' = "applied"
    /\ UNCHANGED <<oldArray, newArray, equalsFn, array, index, sequence, tvars, evars, pvars>>

NextDiff ==
    \/ DiffRemove
    \/ DiffNoop
    \/ DiffAdd
    \/ DiffMove
    \/ DiffThrow
    \/ DiffReturn
    \/ DiffApply

SpecDiff == InitDiff /\ [][NextDiff]_vars

(***************************************************************************)
(* Specification of the node equivalence check: areNodesEqual called once  *)
(* on every pair of the nodes EqNodes.                                     *)
(***************************************************************************)
EqNodes ==
    { hKey("li", "1"), hKey("li", "2"), hKey("li", Absent),
      hKey("p", "1"), hKey("p", Absent),
      hString("hi"), hString("bye"),
      hFragment(<<>>), hFragment(<<1>>) }

InitEq ==
    /\ DispatchIdle
    /\ DiffIdle
    /\ TreeIdle
    /\ argOne \in EqNodes
    /\ argTwo \in EqNodes
    /\ eqModule \in EqModules
    /\ eqResult = "pending"

\* eqResult = areNodesEqual(argOne, argTwo)
CallAreNodesEqual ==
    /\ eqResult = "pending"
    /\ eqResult' = IF areNodesEqualOf(eqModule, argOne, argTwo) THEN "true" ELSE "false"
    /\ UNCHANGED <<argOne, argTwo, eqModule, dvars, tvars, pvars>>

NextEq == CallAreNodesEqual

SpecEq == InitEq /\ [][NextEq]_vars

(***************************************************************************)
(* Helpers of the properties.                                              *)
(***************************************************************************)
\* the operations as <<op, item, index>>
Brief(seq) == [k \in 1..Len(seq) |-> <<seq[k].op, seq[k].item, seq[k].index>>]

DiffReturned == dpc \in {"returned", "applied"}

\* the surface handles a subtree occupies in its parent, in order
RECURSIVE Handles(_, _)
RECURSIVE HandlesOf(_, _)
HandlesOf(vn, children) ==
    IF children = <<>> THEN <<>>
    ELSE Handles(vn, Head(children)) \o HandlesOf(vn, Tail(children))

Handles(vn, v) ==
    IF vn[v].type = DOM_TYPES.FRAGMENT THEN HandlesOf(vn, vn[v].children)
    ELSE <<vn[v].el>>

\* s with the first occurrence of the block `old` replaced by `new`
RECURSIVE ReplaceBlock(_, _, _)
ReplaceBlock(s, old, new) ==
    IF Len(s) < Len(old) THEN s
    ELSE IF SubSeq(s, 1, Len(old)) = old THEN new \o SubSeq(s, Len(old) + 1, Len(s))
    ELSE <<Head(s)>> \o ReplaceBlock(Tail(s), old, new)

LogOps(wd) == {wd.log[k].op : k \in 1..Len(wd.log)}

LogCount(wd, op, v) ==
    Cardinality({k \in 1..Len(wd.log) : wd.log[k].op = op /\ wd.log[k].v = v})

Patched == lastOp.op = "patch"

\* the last patch was of two equivalent roots (patched in place)
PatchedInPlace ==
    Patched /\ areNodesEqual(before.vn[lastOp.old], before.vn[lastOp.new])

\* the last patch was of two roots that are not equivalent (replaced)
PatchedByReplace ==
    Patched /\ ~areNodesEqual(before.vn[lastOp.old], before.vn[lastOp.new])

\* the description h() built for the subtree of v: everything but the fields
\* that mount and patch attach
RECURSIVE Shape(_, _)
Shape(vn, v) ==
    [type |-> vn[v].type, tag |-> vn[v].tag, key |-> vn[v].key, value |-> vn[v].value,
     attrs |-> vn[v].attrs, class |-> vn[v].class, style |-> vn[v].style,
     on |-> vn[v].on,
     children |-> [k \in 1..Len(vn[v].children) |-> Shape(vn, vn[v].children[k])]]

\* the logged calls that change attributes, classes, styles or listeners
PropMutations ==
    {"setAttribute", "removeAttribute", "className", "classList.add",
     "classList.remove", "setStyle", "removeStyle", "addEventListener",
     "removeEventListener"}

\* destroying the old tree and mounting the new one from scratch
Rebuild == mountDOM(destroyDOM(before, lastOp.old), lastOp.new, Container, lastOp.idx)

(***************************************************************************)
(* C1.  For all old and new sequences and every equality function,        *)
(* arraysDiffSequence returns, and applying the returned operations in    *)
(* order to a copy of old yields the new sequence: element-wise equal     *)
(* under equalsFn, identical under the identity equality.                 *)
(***************************************************************************)
C1_ApplyYieldsNew ==
    /\ dpc # "threw"
    /\ dpc = "applied" =>
           /\ Len(applied) = Len(newArray)
           /\ \A k \in 1..Len(newArray) : Eq(equalsCtx, applied[k], newArray[k])
           /\ equalsFn = "identity" => applied = newArray

(***************************************************************************)
(* C2.  After patchDOM(old, new, container) has returned, the surface of  *)
(* the container is the one obtained by destroying old and mounting new   *)
(* from scratch.                                                           *)
(***************************************************************************)
C2_PatchEqualsRebuild ==
    (Patched /\ w.err = NoErr) =>
        Surface(w, Container) = Surface(Rebuild, Container)

(***************************************************************************)
(* C3.  After patching an element whose children were reordered, added or *)
(* removed, the order of its surface children is the order of the new     *)
(* children: each NOOP and MOVE repositions the existing handle.          *)
(***************************************************************************)
C3_SurfaceOrderIsNewOrder ==
    (PatchedInPlace /\ w.err = NoErr /\ w.vn[lastOp.new].type = DOM_TYPES.ELEMENT) =>
        w.dom[w.vn[lastOp.new].el].kids = HandlesOf(w.vn, w.vn[lastOp.new].children)

(***************************************************************************)
(* C4 as stated.  For old [A, B, C] and new [C, A, D] the differ emits    *)
(* REMOVE B (position 1), MOVE C to 0, NOOP A at 1, ADD D at 2.           *)
(***************************************************************************)
C4_Scenario ==
    /\ oldArray = <<1, 2, 3>>
    /\ newArray = <<3, 1, 4>>
    /\ equalsFn = "identity"
    /\ DiffReturned

C4_EmitsRemoveFirst ==
    C4_Scenario =>
        Brief(sequence) = << <<ARRAY_DIFF_OP.REMOVE, 2, 1>>, <<ARRAY_DIFF_OP.MOVE, 3, 0>>,
                             <<ARRAY_DIFF_OP.NOOP, 1, 1>>, <<ARRAY_DIFF_OP.ADD, 4, 2>> >>

(***************************************************************************)
(* C4 as amended.  For old [A, B, C] and new [C, A, D], compared by       *)
(* identity, the differ emits MOVE C from 2 to 0, NOOP A at 1 (original   *)
(* index 0), REMOVE B at position 2, ADD D at 2: B is examined only when  *)
(* the scan reaches the position it occupies in the working sequence.     *)
(***************************************************************************)
C4_EmitsMoveFirst ==
    C4_Scenario =>
        sequence = << Operation(ARRAY_DIFF_OP.MOVE, 0, 3, 2, 2),
                      Operation(ARRAY_DIFF_OP.NOOP, 1, 1, 0, NoField),
                      Operation(ARRAY_DIFF_OP.REMOVE, 2, 2, NoField, NoField),
                      Operation(ARRAY_DIFF_OP.ADD, 2, 4, NoField, NoField) >>

C4_Witness == C4_Scenario /\ dpc = "applied" /\ applied = newArray

(***************************************************************************)
(* C5.  A patch of two nodes that are not equivalent is one destroy of    *)
(* the old subtree followed by one mount of the new subtree at the        *)
(* position the old subtree occupied in the container, with no patching.  *)
(***************************************************************************)
C5_ReplaceAtOldPosition ==
    PatchedByReplace =>
        /\ w.err = NoErr
        /\ LogCount(w, "destroyDOM", lastOp.old) = 1
        /\ LogCount(w, "mountDOM", lastOp.new) = 1
        /\ LogOps(w) \cap {"patchDOM", "patchChildren", "nodeValue"} = {}
        /\ w.dom[Container].kids
               = ReplaceBlock(before.dom[Container].kids,
                              Handles(before.vn, lastOp.old),
                              Handles(w.vn, lastOp.new))

(***************************************************************************)
(* C6.  patchDOM with an absent old tree mounts the new tree (appending)  *)
(* and raises no error.                                                    *)
(***************************************************************************)
C6_AbsentOldMounts ==
    lastOp.op = "patchAbsent" =>
        /\ w.err = NoErr
        /\ w.dom[Container].kids
               = before.dom[Container].kids \o Handles(w.vn, lastOp.new)

(***************************************************************************)
(* C7.  After every in-place patch of an element in which the handler of  *)
(* an event name changed, exactly one listener is attached for that event *)
(* name, the one of the newest handler.                                   *)
(***************************************************************************)
C7_OneListenerPerEvent ==
    (PatchedInPlace /\ w.err = NoErr /\ w.vn[lastOp.new].type = DOM_TYPES.ELEMENT) =>
        \A e \in EventNames :
            (/\ before.vn[lastOp.old].on[e] # Absent
             /\ w.vn[lastOp.new].on[e] # Absent
             /\ before.vn[lastOp.old].on[e] # w.vn[lastOp.new].on[e])
            => /\ Cardinality(AttachedFor(w, w.vn[lastOp.new].el, e)) = 1
               /\ \A l \in AttachedFor(w, w.vn[lastOp.new].el, e) :
                      l.h = w.vn[lastOp.new].on[e]

(***************************************************************************)
(* C8.  The listeners record of every mounted element maps each event    *)
(* name of its `on` props to the listener attached to its handle, after   *)
(* mountDOM and after every in-place patchDOM.                            *)
(***************************************************************************)
RecordsListeners(wd, v) ==
    /\ wd.vn[v].hasListeners
    /\ \A e \in EventNames :
           wd.vn[v].on[e] # Absent =>
               [ev |-> e, id |-> wd.vn[v].listeners[e], h |-> wd.vn[v].on[e]]
                   \in wd.dom[wd.vn[v].el].listeners

C8_ListenersRecorded ==
    (lastOp.op \in {"mount", "patch"} /\ w.err = NoErr) =>
        \A v \in Subtree(w.vn, cur) :
            w.vn[v].type = DOM_TYPES.ELEMENT => RecordsListeners(w, v)

(***************************************************************************)
(* C9.  After destroyDOM of a tree that was mounted and then patched, no  *)
(* listener remains attached to any handle of the tree.                   *)
(***************************************************************************)
C9_NoListenerAfterDestroy ==
    (lastOp.op = "destroy" /\ w.err = NoErr) =>
        \A v \in Subtree(before.vn, lastOp.old) :
            before.vn[v].type = DOM_TYPES.ELEMENT =>
                w.dom[before.vn[v].el].listeners = {}

(***************************************************************************)
(* C10.  After destroyDOM(node) of a mounted node, the node and each of   *)
(* its descendants has no el and no listeners field, and every text and   *)
(* element handle of the subtree has been removed from its parent.        *)
(***************************************************************************)
C10_DestroyClears ==
    lastOp.op = "destroy" =>
        /\ w.err = NoErr
        /\ \A v \in Subtree(before.vn, lastOp.old) :
               /\ w.vn[v].el = 0
               /\ ~w.vn[v].hasListeners
               /\ w.vn[v].listeners = NoListeners
               /\ before.vn[v].type # DOM_TYPES.FRAGMENT =>
                      /\ before.vn[v].el # 0
                      /\ w.dom[before.vn[v].el].parent = 0
        /\ w.dom[Container].kids
               = SelectSeq(before.dom[Container].kids,
                           LAMBDA x : ~Includes(Handles(before.vn, lastOp.old), x))

\* a tree with an element below the root, patched in place and then destroyed
C10_Witness ==
    /\ lastOp.op = "destroy"
    /\ patches > 0
    /\ w.err = NoErr
    /\ \E v \in Subtree(before.vn, lastOp.old) \ {lastOp.old} :
           /\ before.vn[v].type = DOM_TYPES.ELEMENT
           /\ before.vn[v].el # 0
           /\ before.vn[v].hasListeners

(***************************************************************************)
(* C11.  Two element nodes are equivalent if and only if their tags match  *)
(* and their key props match (both absent counts as a match), whichever    *)
(* file areNodesEqual is taken from.                                       *)
(***************************************************************************)
C11_ElementsEqualIffTagAndKey ==
    (/\ eqResult # "pending"
     /\ argOne.type = DOM_TYPES.ELEMENT
     /\ argTwo.type = DOM_TYPES.ELEMENT) =>
        (eqResult = "true" <=> (argOne.tag = argTwo.tag /\ argOne.key = argTwo.key))

(***************************************************************************)
(* C12.  areNodesEqual returns false for nodes of different types, true    *)
(* for two text nodes whatever their values, and true for two fragments.   *)
(***************************************************************************)
C12_TypesTextsFragments ==
    eqResult # "pending" =>
        /\ argOne.type # argTwo.type => eqResult = "false"
        /\ (argOne.type = DOM_TYPES.TEXT /\ argTwo.type = DOM_TYPES.TEXT)
               => eqResult = "true"
        /\ (argOne.type = DOM_TYPES.FRAGMENT /\ argTwo.type = DOM_TYPES.FRAGMENT)
               => eqResult = "true"

C12_Witness ==
    /\ eqResult = "true"
    /\ eqModule = "nodes-equal.js"
    /\ argOne.type = DOM_TYPES.TEXT
    /\ argTwo.type = DOM_TYPES.TEXT
    /\ argOne.value # argTwo.value

(***************************************************************************)
(* C13.  patchDOM(T, T', container) with T the mounted tree and T'         *)
(* structurally identical to T returns having made no attribute, class,    *)
(* style or listener mutation and no mount or destroy call, and leaves the *)
(* surface children of every handle in the order they had.                 *)
(***************************************************************************)
C13_IdenticalPatchMutatesNothing ==
    (Patched /\ Shape(before.vn, lastOp.old) = Shape(before.vn, lastOp.new)) =>
        /\ w.err = NoErr
        /\ LogOps(w) \cap (PropMutations \cup {"mountDOM", "destroyDOM"}) = {}
        /\ \A el \in 1..Len(before.dom) : w.dom[el].kids = before.dom[el].kids

(***************************************************************************)
(* C14.  Every patch of a mounted text node against a text node keeps the  *)
(* surface handle (new.el is old.el) and writes the text content exactly   *)
(* once when the values differ and not at all when they are equal.         *)
(***************************************************************************)
C14_TextPatch ==
    Patched =>
        \A k \in 1..Len(w.log) :
            LET e == w.log[k]
            IN  (e.op = "patchDOM" /\ before.vn[e.v].type = DOM_TYPES.TEXT) =>
                    /\ before.vn[e.idx].el # 0
                    /\ w.vn[e.v].el = before.vn[e.idx].el
                    /\ w.dom[w.vn[e.v].el].kind = "text"
                    /\ w.dom[w.vn[e.v].el].text = before.vn[e.v].value
                    /\ LogCount(w, "nodeValue", e.v)
                           = IF before.vn[e.idx].value # before.vn[e.v].value THEN 1 ELSE 0

C14_Witness ==
    /\ PatchedInPlace
    /\ w.err = NoErr
    /\ before.vn[lastOp.new].type = DOM_TYPES.TEXT
    /\ before.vn[lastOp.old].value # before.vn[lastOp.new].value
    /\ w.vn[lastOp.new].el = before.vn[lastOp.old].el
    /\ LogCount(w, "nodeValue", lastOp.new) = 1

\* the last patch was of two elements, patched in place; the handle
PatchedElement ==
    /\ PatchedInPlace
    /\ before.vn[lastOp.new].type = DOM_TYPES.ELEMENT

PatchedEl == before.vn[lastOp.old].el

\* the non-blank tokens of a class value, string or array
Tokens(class) == {class.parts[k] : k \in 1..Len(class.parts)} \ BlankStrings

TokensOn(wd, el) == {wd.dom[el].classes[k] : k \in 1..Len(wd.dom[el].classes)}

(***************************************************************************)
(* C15.  Patching the class of an element removes from the surface exactly *)
(* the non-blank tokens of the old value that the new value lacks and adds *)
(* exactly those of the new value that the old one lacks, whether a value  *)
(* is a string or an array; every other token of the surface stays.       *)
(***************************************************************************)
C15_ClassTokens ==
    PatchedElement =>
        LET old == Tokens(before.vn[lastOp.old].class)
            new == Tokens(before.vn[lastOp.new].class)
        IN  /\ w.err = NoErr
            /\ TokensOn(w, PatchedEl)
                   = (TokensOn(before, PatchedEl) \ (old \ new)) \cup (new \ old)

C15_Witness ==
    /\ PatchedElement
    /\ ~before.vn[lastOp.old].class.isArray
    /\ before.vn[lastOp.new].class.isArray
    /\ Tokens(before.vn[lastOp.old].class) = {"foo", "bar"}
    /\ TokensOn(before, PatchedEl) = {"foo", "bar", ForeignToken}
    /\ TokensOn(w, PatchedEl) = {"bar", "baz", ForeignToken}

(***************************************************************************)
(* C16.  After the patch of an element every property of the new style    *)
(* holds the new value on the surface, and every property only the old    *)
(* style had is cleared.                                                   *)
(***************************************************************************)
C16_StylesApplied ==
    PatchedElement =>
        /\ w.err = NoErr
        /\ \A s \in StyleNames :
               LET old == before.vn[lastOp.old].style[s]
                   new == before.vn[lastOp.new].style[s]
               IN  /\ new # Absent => w.dom[PatchedEl].styles[s] = new
                   /\ (old # Absent /\ new = Absent) => w.dom[PatchedEl].styles[s] = Absent

(***************************************************************************)
(* C17.  After the patch of an element every attribute only the old       *)
(* mapping had is cleared, every added or updated one holds its new value *)
(* or, when that value is null, is cleared, and an unchanged one is not   *)
(* touched.                                                                *)
(***************************************************************************)
C17_AttrsApplied ==
    PatchedElement =>
        /\ w.err = NoErr
        /\ \A a \in AttrNames :
               LET old == before.vn[lastOp.old].attrs[a]
                   new == before.vn[lastOp.new].attrs[a]
                   touched == \E k \in 1..Len(w.log) :
                                  /\ w.log[k].op \in {"setAttribute", "removeAttribute"}
                                  /\ w.log[k].name = a
               IN  IF old = new
                   THEN ~touched /\ w.dom[PatchedEl].attrs[a] = before.dom[PatchedEl].attrs[a]
                   ELSE IF new \in {Absent, Null}
                   THEN w.dom[PatchedEl].attrs[a] = Absent
                   ELSE w.dom[PatchedEl].attrs[a] = new

C17_Witness ==
    /\ PatchedElement
    /\ w.err = NoErr
    /\ before.vn[lastOp.old].attrs = Attrs("x", "d")
    /\ before.vn[lastOp.new].attrs = Attrs(Null, "d")
    /\ before.dom[PatchedEl].attrs = Attrs("x", "d")
    /\ w.dom[PatchedEl].attrs = Attrs(Absent, "d")

\* a type outside the known variant set
UnknownType(vn, v) ==
    vn[v].type \notin {DOM_TYPES.TEXT, DOM_TYPES.ELEMENT, DOM_TYPES.FRAGMENT}

PatchOps == {"patch", "patchUnmounted", "patchWrongContainer"}

(***************************************************************************)
(* C18.  Whenever mountDOM or destroyDOM is called on a node of unknown    *)
(* type, or patchDOM is called with an old or new node of unknown type     *)
(* (both may carry the same unknown type), the call raises an error.       *)
(***************************************************************************)
C18_UnknownTypeSignals ==
    /\ \A k \in 1..Len(w.log) :
           (/\ w.log[k].op \in {"mountDOM", "destroyDOM"}
            /\ UnknownType(before.vn, w.log[k].v)) => w.err # NoErr
    /\ (/\ lastOp.op \in PatchOps
        /\ \/ UnknownType(before.vn, lastOp.old)
           \/ UnknownType(before.vn, lastOp.new)) => w.err # NoErr

(***************************************************************************)
(* C19.  patchDOM or destroyDOM called with an old tree that was never     *)
(* mounted, or patchDOM called with a container the old tree is not        *)
(* mounted in, raises an error.                                            *)
(***************************************************************************)
C19_UnmountedSignals ==
    lastOp.op \in {"patchUnmounted", "destroyUnmounted", "patchWrongContainer"} =>
        w.err # NoErr

(***************************************************************************)
(* C20.  For an empty old sequence and any new sequence the differ         *)
(* returns, under either equality function, exactly one ADD per new item,  *)
(* at the indices 0 .. n-1 in order.                                       *)
(***************************************************************************)
C20_EmptyOldOnlyAdds ==
    oldArray = <<>> =>
        /\ dpc # "threw"
        /\ DiffReturned =>
               sequence = [k \in 1..Len(newArray) |->
                              Operation(ARRAY_DIFF_OP.ADD, k - 1, newArray[k],
                                        NoField, NoField)]

\* the step on which arraysDiffSequence leaves the loop and returns
DiffReturns == dpc = "loop" /\ dpc' = "returned"

(***************************************************************************)
(* C21.  On return the differ appends one REMOVE for every element left in *)
(* the working sequence behind the consumed new sequence: after all other  *)
(* operations, in old-sequence order, each at an index that is a position  *)
(* of the working sequence when the operation is applied.  For an empty    *)
(* new sequence the result is one REMOVE per old item and nothing else.    *)
(***************************************************************************)
C21_TailRemoved ==
    /\ [][DiffReturns =>
             LET n == Len(newArray)
                 cnt == Len(array.array) - n
             IN  /\ cnt >= 0
                 /\ sequence' = sequence \o
                        [k \in 1..cnt |->
                            Operation(ARRAY_DIFF_OP.REMOVE, n, array.array[n + k],
                                      NoField, NoField)]
                 /\ \A k \in 1..cnt :
                        /\ n < Len(array.array) - (k - 1)
                        /\ array.originalIndices[n + k] >= 0
                        /\ oldArray[array.originalIndices[n + k] + 1] = array.array[n + k]
                        /\ k < cnt => array.originalIndices[n + k]
                                         < array.originalIndices[n + k + 1]]_vars
    /\ [](newArray = <<>> =>
             /\ dpc # "threw"
             /\ DiffReturned =>
                    sequence = [k \in 1..Len(oldArray) |->
                                   Operation(ARRAY_DIFF_OP.REMOVE, 0, oldArray[k],
                                             NoField, NoField)])

C21_Witness ==
    /\ DiffReturned
    /\ Len(oldArray) = 3
    /\ Len(newArray) = 1
    /\ Len(sequence) = 3
    /\ sequence[1].op = ARRAY_DIFF_OP.NOOP
    /\ sequence[2] = Operation(ARRAY_DIFF_OP.REMOVE, 1, oldArray[2], NoField, NoField)
    /\ sequence[3] = Operation(ARRAY_DIFF_OP.REMOVE, 1, oldArray[3], NoField, NoField)

(***************************************************************************)
(* component.js: createApp.  The closure variables state, vdom, parentEl   *)
(* and subscriptions are the record `app`; the application's dispatcher is *)
(* the variable dispatcher.  An operation takes and returns the record     *)
(* [app, w, d] of the application, the world and the dispatcher.           *)
(***************************************************************************)
\* the states of the application, its reducers and its view
AppStates == 0..2
ReducerNames == <<"add", "reset">>
reducer(actionName, state, payload) ==
    IF actionName = "add" THEN (state + payload) % 3 ELSE 0
view(state) ==
    CASE state = 0 -> hTag("div", <<hString("hi")>>)
      [] state = 1 -> hFragment(<<A, B>>)
      [] OTHER -> hTag("div", <<Button("f1"), hString("hi")>>)

RECURSIVE attachReducers(_, _)
attachReducers(r, names) ==
    IF names = <<>> THEN r
    ELSE LET subs == subscribe(r.d, Head(names), Head(names))
         IN  attachReducers([r EXCEPT !.d = subs.d,
                                      !.app.subscriptions = Append(@, subs.unsub)],
                            Tail(names))

createApp(state, wd) ==
    LET a == afterEveryCommand(Dispatcher, "renderApp")
    IN  attachReducers([app |-> [state |-> state, vdom |-> 0, parentEl |-> 0,
                                 subscriptions |-> <<a.unsub>>],
                        w |-> wd, d |-> a.d],
                       ReducerNames)

renderApp(r) ==
    LET d == IF r.app.vdom # 0 THEN destroyDOM(r.w, r.app.vdom) ELSE r.w
        a == alloc(d, view(r.app.state))
        root == Len(a.vn)
    IN  IF d.err # NoErr THEN [r EXCEPT !.w = d]
        ELSE [r EXCEPT !.app.vdom = root,
                       !.w = mountDOM(a, root, r.app.parentEl, NullIndex)]

\* the handlers of the application run in the order dispatch calls them
RECURSIVE runHandlers(_, _)
runHandlers(r, calls) ==
    IF calls = <<>> \/ r.w.err # NoErr THEN r
    ELSE LET c == Head(calls)
         IN  runHandlers(IF c.handler = "renderApp" THEN renderApp(r)
                         ELSE [r EXCEPT !.app.state = reducer(c.handler, @, c.arg)],
                         Tail(calls))

appEmit(r, eventName, payload) == runHandlers(r, dispatch(r.d, eventName, payload).calls)

appMountDOM(r, parentEl) == renderApp([r EXCEPT !.app.parentEl = parentEl])

RECURSIVE unsubscribeAll(_, _)
unsubscribeAll(d, subscriptions) ==
    IF subscriptions = <<>> THEN d
    ELSE unsubscribeAll(unregister(d, Head(subscriptions)), Tail(subscriptions))

appUnmountKeepsSubscriptions(r) ==
    LET d == destroyDOM(r.w, r.app.vdom)
    IN  IF d.err # NoErr THEN [r EXCEPT !.w = d]
        ELSE [r EXCEPT !.w = d, !.app.vdom = 0]

appUnmount(r) ==
    LET d == destroyDOM(r.w, r.app.vdom)
    IN  IF d.err # NoErr THEN [r EXCEPT !.w = d]
        ELSE [r EXCEPT !.w = d, !.app.vdom = 0,
                       !.d = unsubscribeAll(r.d, r.app.subscriptions)]

(***************************************************************************)
(* component.js: the class defineComponent returns, and createComponentNode *)
(* of mount-dom.js.  The instance is the field comp of the world.  render() *)
(* draws the view of the sum of the state and the props.                   *)
(***************************************************************************)
render(component) == view((component.state + component.props) % 3)

\* get elements / get firstElement, for a render() that returns no component
firstElement(wd) ==
    IF wd.comp.vdom = 0 THEN Undef ELSE wd.vn[wd.comp.vdom].el

\* #wireEventHandler for every entry; the map callback returns nothing
RECURSIVE wireEventHandlers(_, _)
wireEventHandlers(component, names) ==
    IF names = <<>> THEN component
    ELSE wireEventHandlers(
             [component EXCEPT !.d = subscribe(@, Head(names), Head(names)).d,
                               !.subscriptions = Append(@, Undefined)],
             Tail(names))

mount(wd, hostEl, idx) ==
    IF wd.comp.isMounted THEN Throw(wd, "Component is already mounted!")
    ELSE LET a == alloc(wd, render(wd.comp))
             root == Len(a.vn)
             m == mountDOM([a EXCEPT !.comp.vdom = root], root, hostEl, idx)
         IN  IF m.err # NoErr THEN m
             ELSE [m EXCEPT !.comp = [wireEventHandlers(
                                          [@ EXCEPT !.subscriptions = <<>>],
                                          @.eventHandlers)
                                         EXCEPT !.hostEl = hostEl, !.isMounted = TRUE]]

unmount(wd) ==
    IF ~ wd.comp.isMounted THEN Throw(wd, "Component is not mounted yet!")
    ELSE LET d == destroyDOM(wd, wd.comp.vdom)
         IN  IF d.err # NoErr THEN d
             ELSE IF wd.comp.subscriptions # <<>>
             THEN Throw(d, "TypeError")
             ELSE [d EXCEPT !.comp.vdom = 0, !.comp.hostEl = 0,
                            !.comp.mountDOM = "false", !.comp.subscriptions = <<>>]

\* #patch(): this.#vdom = patchDOM(this.#vdom, this.render(), this.#hostEl, this)
patch(wd) ==
    IF ~ wd.comp.isMounted THEN Throw(wd, "Component is not mounted!")
    ELSE LET a == alloc(wd, render(wd.comp))
             root == Len(a.vn)
             p == patchDOM(a, IF a.comp.vdom = 0 THEN Undef ELSE a.comp.vdom, root,
                           a.comp.hostEl)
         IN  IF p.err # NoErr THEN p ELSE [p EXCEPT !.comp.vdom = root]

\* updateState(state): the state is merged and #patch() is called
updateState(wd, state) == patch([wd EXCEPT !.comp.state = state])

\* updateProps(props): the props are merged; `this.#patch;` reads the method
\* and does not call it
updateProps(wd, props) == [wd EXCEPT !.comp.props = props]

\* emit(eventName, payload): the calls the component's dispatcher makes
emit(wd, eventName, payload) ==
    LET r == dispatch(wd.comp.d, eventName, payload)
    IN  [w |-> [wd EXCEPT !.comp.d = r.d], calls |-> r.calls, warned |-> r.warned]

\* the event names a component node passes handlers for
eventsOf(n) == SelectSeq(EventOrder, LAMBDA e : n.on[e] # Absent)

createComponentNode(wd, v, parentEl, idx) ==
    LET c == Component(0, eventsOf(wd.vn[v]))
        m == mount([wd EXCEPT !.comp = c], parentEl, idx)
    IN  IF m.err # NoErr THEN m
        ELSE [m EXCEPT !.vn[v].component = TRUE, !.vn[v].el = firstElement(m)]

(***************************************************************************)
(* Specification of a component: an instance is constructed with props and *)
(* with or without an event handler and is mounted into the container and  *)
(* unmounted, in any order, its state and its props are updated and it     *)
(* emits events (at most MaxRenders updates and emits); or a node of the   *)
(* component's type is mounted with mountDOM and destroyed with            *)
(* destroyDOM.                                                             *)
(***************************************************************************)
HandlerSets == {<<>>, <<"click">>}
\* the payloads the component emits
CompPayloads == {"one", "two"}

\* h(Counter, { on: ... }): a node whose tag is the component class
hComponent(on) ==
    VNode(DOM_TYPES_COMPONENT, "Counter", Absent, "", NoAttrs, NoClass, NoStyle, on, <<>>)

InitComp ==
    /\ DiffIdle
    /\ EqIdle
    /\ DispatchIdle
    /\ \E p \in AppStates, e \in HandlerSets, wd \in {EmptyWorld, ForeignWorld} :
          w = [wd EXCEPT !.comp = Component(p, e)]
    /\ cur = 0
    /\ before = w
    /\ lastOp = NoOp
    /\ patches = 0

\* the calls made on the component instance, "init" for none yet
CompOps ==
    {"init", "compMount", "compUnmount", "compUpdateState", "compUpdateProps",
     "compEmit"}

CompDid(op, wd, idx) ==
    /\ w' = wd
    /\ before' = ResetLog(w)
    /\ lastOp' = [op |-> op, old |-> w.comp.vdom, new |-> wd.comp.vdom, idx |-> idx]
    /\ UNCHANGED <<cur, patches, dvars, evars, pvars>>

\* component.mount(document.body, index)
CompMount(idx) ==
    /\ w.err = NoErr
    /\ lastOp.op \in CompOps
    /\ CompDid("compMount", mount(ResetLog(w), Container, idx), idx)

\* component.unmount()
CompUnmount ==
    /\ w.err = NoErr
    /\ lastOp.op \in CompOps
    /\ CompDid("compUnmount", unmount(ResetLog(w)), NullIndex)

\* component.updateState({ count: state })
CompUpdateState(state) ==
    /\ w.err = NoErr
    /\ lastOp.op \in CompOps
    /\ patches < MaxRenders
    /\ w' = updateState(ResetLog(w), state)
    /\ before' = ResetLog(w)
    /\ lastOp' = [op |-> "compUpdateState", old |-> w.comp.vdom, new |-> w'.comp.vdom,
                  idx |-> state]
    /\ patches' = patches + 1
    /\ UNCHANGED <<cur, dvars, evars, pvars>>

\* component.updateProps({ count: props })
CompUpdateProps(props) ==
    /\ w.err = NoErr
    /\ lastOp.op \in CompOps
    /\ patches < MaxRenders
    /\ w' = updateProps(ResetLog(w), props)
    /\ before' = ResetLog(w)
    /\ lastOp' = [op |-> "compUpdateProps", old |-> w.comp.vdom, new |-> w'.comp.vdom,
                  idx |-> props]
    /\ patches' = patches + 1
    /\ UNCHANGED <<cur, dvars, evars, pvars>>

\* component.emit(eventName, payload)
CompEmit(eventName, payload) ==
    /\ w.err = NoErr
    /\ lastOp.op \in CompOps
    /\ patches < MaxRenders
    /\ LET r == emit(ResetLog(w), eventName, payload)
       IN  /\ w' = r.w
           /\ lastCall' = [NoCall EXCEPT !.op = "dispatch", !.commandName = eventName,
                                         !.payload = payload, !.before = w.comp.d,
                                         !.calls = r.calls, !.warned = r.warned]
    /\ before' = ResetLog(w)
    /\ lastOp' = [op |-> "compEmit", old |-> w.comp.vdom, new |-> w.comp.vdom,
                  idx |-> NullIndex]
    /\ patches' = patches + 1
    /\ UNCHANGED <<cur, dvars, evars, dispatcher, issued, live, app>>

\* mountDOM(h(Counter, { on }), document.body, index)
MountNode(on, idx) ==
    /\ lastOp.op = "init"
    /\ LET a == alloc(w, hComponent(on))
           root == Len(a.vn)
       IN  /\ before' = a
           /\ w' = mountDOM(a, root, Container, idx)
           /\ cur' = root
           /\ lastOp' = [op |-> "mountNode", old |-> 0, new |-> root, idx |-> idx]
    /\ UNCHANGED <<patches, dvars, evars, pvars>>

\* destroyDOM(vdom) of the mounted component node
DestroyNode ==
    /\ lastOp.op = "mountNode"
    /\ w.err = NoErr
    /\ before' = ResetLog(w)
    /\ w' = destroyDOM(ResetLog(w), cur)
    /\ lastOp' = [op |-> "destroyNode", old |-> cur, new |-> 0, idx |-> lastOp.idx]
    /\ UNCHANGED <<cur, patches, dvars, evars, pvars>>

NextComp ==
    \/ \E idx \in {NullIndex, 0, 1} : CompMount(idx)
    \/ CompUnmount
    \/ \E state \in AppStates : CompUpdateState(state)
    \/ \E props \in AppStates : CompUpdateProps(props)
    \/ \E e \in EventNames, payload \in CompPayloads : CompEmit(e, payload)
    \/ \E on \in {NoEvents, On("f1", Absent)}, idx \in {NullIndex, 0, 1} : MountNode(on, idx)
    \/ DestroyNode

SpecComp == InitComp /\ [][NextComp]_vars

(***************************************************************************)
(* Specification of an application: createApp was called with one of the   *)
(* initial states; the application is mounted into the container,          *)
(* commands with and without a reducer are emitted, and it is unmounted.   *)
(***************************************************************************)
AppCommands == {"add", "reset", "other"}
AppPayloads == {1, 2}

\* nothing was called on the application; `state` is the state before the
\* last call, `unmounted` whether unmount() has returned before or in it
AppNoOp ==
    [op |-> "init", old |-> 0, new |-> 0, idx |-> NullIndex,
     state |-> 0, unmounted |-> FALSE]

InitApp ==
    /\ DiffIdle
    /\ EqIdle
    /\ issued = {}
    /\ live = {}
    /\ lastCall = NoCall
    /\ \E s \in AppStates, wd \in {EmptyWorld, ForeignWorld} :
          LET r == createApp(s, wd)
          IN  /\ app = r.app
              /\ dispatcher = r.d
              /\ w = r.w
    /\ cur = 0
    /\ before = w
    /\ lastOp = AppNoOp
    /\ patches = 0

theApp == [app |-> app, w |-> ResetLog(w), d |-> dispatcher]

AppDid(op, r, commandName, payload) ==
    /\ app' = r.app
    /\ w' = r.w
    /\ dispatcher' = r.d
    /\ before' = ResetLog(w)
    /\ lastOp' = [op |-> op, old |-> app.vdom, new |-> r.app.vdom, idx |-> NullIndex,
                  state |-> app.state,
                  unmounted |-> \/ lastOp.unmounted
                                \/ op = "appUnmount" /\ r.w.err = NoErr]
    /\ lastCall' = [NoCall EXCEPT !.op = op, !.commandName = commandName,
                                  !.payload = payload, !.before = dispatcher]
    /\ cur' = r.app.vdom
    /\ patches' = IF op = "appUnmount" THEN patches ELSE patches + 1
    /\ UNCHANGED <<issued, live, dvars, evars>>

\* app.mountDOM(document.body)
AppMountDOM ==
    /\ w.err = NoErr
    /\ patches < MaxRenders
    /\ AppDid("appMount", appMountDOM(theApp, Container), "", 0)

\* app.emit(eventName, payload)
AppEmit(eventName, payload) ==
    /\ w.err = NoErr
    /\ patches < MaxRenders
    /\ AppDid("appEmit", appEmit(theApp, eventName, payload), eventName, payload)

\* app.unmount()
AppUnmount ==
    /\ w.err = NoErr
    /\ AppDid("appUnmount", appUnmount(theApp), "", 0)

NextApp ==
    \/ AppMountDOM
    \/ \E c \in AppCommands, p \in AppPayloads : AppEmit(c, p)
    \/ AppUnmount

SpecApp == InitApp /\ [][NextApp]_vars

(***************************************************************************)
(* Specification of mounting at a position: one tree is mounted into the   *)
(* container, empty or with two foreign children, at an index from 0 up to *)
(* past the number of children, or without an index.                       *)
(***************************************************************************)
MountIndices == {NullIndex} \cup (0..MaxLen)

\* mountDOM(view, container, index)
MountAt(t, idx) ==
    /\ lastOp.op = "init"
    /\ LET a == alloc(w, t)
           root == Len(a.vn)
       IN  /\ before' = a
           /\ w' = mountDOM(a, root, Container, idx)
           /\ cur' = root
           /\ lastOp' = [op |-> "mountAt", old |-> 0, new |-> root, idx |-> idx]
    /\ UNCHANGED <<patches, dvars, evars, pvars>>

NextMount == \E t \in Trees, idx \in MountIndices : MountAt(t, idx)

SpecMount == Init /\ [][NextMount]_vars

(***************************************************************************)
(* C23.  mountDOM(node, container, index) puts the surface handles of the  *)
(* node (for a fragment: of its flattened children, in declared order) at  *)
(* child positions index, index + 1, ... of the container, for every index *)
(* from 0 to the number of children; without an index, or with one not     *)
(* below the number of children, they are appended.                        *)
(***************************************************************************)
C23_MountedAtIndex ==
    lastOp.op = "mountAt" =>
        /\ w.err = NoErr
        /\ LET old == before.dom[Container].kids
               n == Len(old)
               pos == IF lastOp.idx = NullIndex \/ lastOp.idx >= n THEN n ELSE lastOp.idx
           IN  w.dom[Container].kids =
                   SubSeq(old, 1, pos) \o Handles(w.vn, lastOp.new) \o SubSeq(old, pos + 1, n)

(***************************************************************************)
(* Specification of the dispatcher: handlers are subscribed to commands,   *)
(* after-command handlers are registered, returned un-register functions   *)
(* are called any number of times, and commands are dispatched.  The       *)
(* handler "once" and the after-command handler "onceAfter" un-register    *)
(* themselves when they run; the others leave the dispatcher alone.        *)
(***************************************************************************)
Commands == {"greet", "bye"}
\* the commands that handlers are subscribed to
Subscribed == {"greet"}
Handlers == {"h1", "h2", "once"}
AfterHandlers == {"done", "onceAfter"}
Payloads == {"John", "Jane"}

InitDispatch ==
    /\ DiffIdle
    /\ TreeIdle
    /\ EqIdle
    /\ DispatchIdle

\* the registrations a one-shot handler gave up during the calls
GivenUp(calls, commandName) ==
    {<<IF calls[k].arg = NoArg THEN "" ELSE commandName, calls[k].handler>> :
        k \in {j \in 1..Len(calls) : calls[j].handler \in OneShot}}

Called(op, commandName, handler, payload, fn, r) ==
    [op |-> op, commandName |-> commandName, handler |-> handler, payload |-> payload,
     fn |-> fn, before |-> dispatcher, liveBefore |-> live,
     calls |-> r.calls, warned |-> r.warned]

NoCalls == [calls |-> <<>>, warned |-> FALSE]

\* fn = dispatcher.subscribe(commandName, handler)
Subscribe(commandName, handler) ==
    /\ LET r == subscribe(dispatcher, commandName, handler)
       IN  /\ dispatcher' = r.d
           /\ issued' = issued \cup {r.unsub}
           /\ lastCall' = Called("subscribe", commandName, handler, "", r.unsub, NoCalls)
    /\ live' = live \cup {<<commandName, handler>>}
    /\ UNCHANGED <<app, dvars, tvars, evars>>

\* fn = dispatcher.afterEveryCommand(handler), for a handler not registered
AfterEveryCommand(handler) ==
    /\ ~ Includes(dispatcher.afterHandlers, handler)
    /\ LET r == afterEveryCommand(dispatcher, handler)
       IN  /\ dispatcher' = r.d
           /\ issued' = issued \cup {r.unsub}
           /\ lastCall' = Called("afterEveryCommand", "", handler, "", r.unsub, NoCalls)
    /\ live' = live \cup {<<"", handler>>}
    /\ UNCHANGED <<app, dvars, tvars, evars>>

\* fn(), for a function returned earlier
Unregister(fn) ==
    /\ fn \in issued
    /\ dispatcher' = unregister(dispatcher, fn)
    /\ live' = live \ {<<fn.commandName, fn.handler>>}
    /\ lastCall' = Called("unregister", fn.commandName, fn.handler, "", fn, NoCalls)
    /\ UNCHANGED <<issued, app, dvars, tvars, evars>>

\* dispatcher.dispatch(commandName, payload)
Dispatch(commandName, payload) ==
    /\ LET r == dispatch(dispatcher, commandName, payload)
       IN  /\ dispatcher' = r.d
           /\ live' = live \ GivenUp(r.calls, commandName)
           /\ lastCall' = Called("dispatch", commandName, "", payload, NoopFn, r)
    /\ UNCHANGED <<issued, app, dvars, tvars, evars>>

NextDispatch ==
    \/ \E c \in Subscribed, f \in Handlers : Subscribe(c, f)
    \/ \E f \in AfterHandlers : AfterEveryCommand(f)
    \/ \E fn \in issued : Unregister(fn)
    \/ \E c \in Commands, p \in Payloads : Dispatch(c, p)

SpecDispatch == InitDispatch /\ [][NextDispatch]_vars

\* the handlers the dispatcher d holds for the command, in order
HandlersFor(d, commandName) ==
    IF commandName \in DOMAIN d.subs THEN d.subs[commandName] ELSE <<>>

Dispatched == lastCall.op = "dispatch"

\* the calls a dispatch should make, given the dispatcher it started from
ExpectedCalls ==
    LET hs == HandlersFor(lastCall.before, lastCall.commandName)
        as == lastCall.before.afterHandlers
    IN  [k \in 1..Len(hs) |-> Call(hs[k], lastCall.payload)]
            \o [k \in 1..Len(as) |-> Call(as[k], NoArg)]

(***************************************************************************)
(* C24.  dispatch(command, payload) invokes every handler registered for   *)
(* the command with the payload, in subscription order, then every         *)
(* after-command handler, each exactly once; for a command without         *)
(* handlers it raises nothing and still runs the after-command handlers.   *)
(***************************************************************************)
C24_DispatchInvokesAll ==
    Dispatched => lastCall.calls = ExpectedCalls

\* the handlers that the last dispatch ran for its command
Invoked == {lastCall.calls[k].handler :
               k \in {j \in 1..Len(lastCall.calls) : lastCall.calls[j].arg # NoArg}}

\* no handler that the last dispatch started with un-registers itself
NoOneShot ==
    \A k \in 1..Len(ExpectedCalls) : ExpectedCalls[k].handler \notin OneShot

(***************************************************************************)
(* C25.  After any sequence of subscribe calls and calls of the returned   *)
(* un-register functions, dispatch(command) invokes exactly the handlers   *)
(* subscribed to the command and not yet un-registered, each once; a       *)
(* subscribe of a handler already registered for the command registers     *)
(* nothing and returns a function that does nothing.                       *)
(***************************************************************************)
C25_DispatchInvokesRegistered ==
    /\ (Dispatched /\ NoOneShot) =>
          /\ Invoked = {f \in Handlers : <<lastCall.commandName, f>> \in lastCall.liveBefore}
          /\ \A f \in Invoked :
                Cardinality({k \in 1..Len(lastCall.calls) :
                                lastCall.calls[k] = Call(f, lastCall.payload)}) = 1
    /\ (/\ lastCall.op = "subscribe"
        /\ Includes(HandlersFor(lastCall.before, lastCall.commandName), lastCall.handler)) =>
          /\ lastCall.fn = NoopFn
          /\ dispatcher = lastCall.before
          /\ unregister(dispatcher, lastCall.fn) = dispatcher

\* the last call was an emit on an application whose view was mounted
EmittedMounted == lastOp.op = "appEmit" /\ lastOp.old # 0

\* the state the reducer of the emitted command gives, the state itself for a
\* command without reducer
Reduced ==
    IF Includes(ReducerNames, lastCall.commandName)
    THEN reducer(lastCall.commandName, lastOp.state, lastCall.payload)
    ELSE lastOp.state

\* what is in the container when the tree t is mounted into an empty one
MountedAlone(t) ==
    LET a == alloc(EmptyWorld, t)
    IN  Surface(mountDOM(a, Len(a.vn), Container, NullIndex), Container).kids

\* the surface of the children of the container behind the foreign ones
ViewSurface(wd) ==
    LET kids == Surface(wd, Container).kids
        foreign == Len(before.dom[Container].kids) - Len(Handles(before.vn, lastOp.old))
    IN  SubSeq(kids, foreign + 1, Len(kids))

\* the emit applied the reducer and then rendered once: the old view was
\* destroyed and view(state) of the new state mounted
ReducedThenRendered ==
    /\ w.err = NoErr
    /\ app.state = Reduced
    /\ lastOp.new # lastOp.old
    /\ LogCount(w, "destroyDOM", lastOp.old) = 1
    /\ LogCount(w, "mountDOM", lastOp.new) = 1
    /\ \A k \in 1..Len(w.log) :
          /\ w.log[k].op = "destroyDOM" => w.log[k].v \in Subtree(before.vn, lastOp.old)
          /\ w.log[k].op = "mountDOM" => w.log[k].v \in Subtree(w.vn, lastOp.new)
    /\ Shape(w.vn, lastOp.new) = Shape(alloc(EmptyWorld, view(Reduced)).vn,
                                       Len(alloc(EmptyWorld, view(Reduced)).vn))
    /\ ViewSurface(w) = MountedAlone(view(Reduced))
    /\ \A v \in Subtree(before.vn, lastOp.old) : w.vn[v].el = 0

(***************************************************************************)
(* C26.  On a mounted application every emit(command, payload) applies the *)
(* reducer of the command to the state and then renders exactly once,      *)
(* destroying the mounted view and mounting view(state) of the new state;  *)
(* a command without reducer renders with the state unchanged.             *)
(***************************************************************************)
C26_EmitReducesThenRenders ==
    EmittedMounted => ReducedThenRendered

\* C26 for an application that was not unmounted since createApp
C26_EmitReducesThenRendersUnlessUnmounted ==
    (EmittedMounted /\ ~lastOp.unmounted) => ReducedThenRendered

C26_Witness ==
    /\ EmittedMounted
    /\ ~lastOp.unmounted
    /\ lastCall.commandName = "add"
    /\ lastCall.payload = 2
    /\ lastOp.state = 2
    /\ app.state = 1
    /\ w.err = NoErr

\* the dispatcher holds no handler of any kind
Unsubscribed ==
    /\ dispatcher.afterHandlers = <<>>
    /\ \A c \in DOMAIN dispatcher.subs : dispatcher.subs[c] = <<>>

(***************************************************************************)
(* C27.  When the application's unmount() has returned, the mounted view   *)
(* is destroyed and the dispatcher holds neither a reducer subscription    *)
(* nor the re-render handler; they stay removed, and an emit of any        *)
(* command from then on leaves the state, the tree and the surface as they *)
(* are and neither mounts nor destroys anything.                           *)
(***************************************************************************)
C27_UnmountedAppIsInert ==
    /\ [](lastOp.unmounted => Unsubscribed)
    /\ []((lastOp.op = "appUnmount" /\ w.err = NoErr) =>
             /\ app.vdom = 0
             /\ LogCount(w, "destroyDOM", lastOp.old) = 1
             /\ \A v \in Subtree(before.vn, lastOp.old) : w.vn[v].el = 0
             /\ w.dom[Container].kids =
                    SubSeq(before.dom[Container].kids, 1,
                           Len(before.dom[Container].kids)
                               - Len(Handles(before.vn, lastOp.old))))
    /\ [][(lastOp.unmounted /\ lastOp'.op = "appEmit") =>
             /\ app' = app
             /\ w'.err = NoErr
             /\ w'.log = <<>>
             /\ w'.dom = w.dom
             /\ w'.vn = w.vn]_vars

C27_Witness ==
    /\ lastOp.op = "appEmit"
    /\ lastOp.unmounted
    /\ lastOp.old = 0
    /\ app.parentEl = Container
    /\ lastCall.commandName = "add"
    /\ app.state = lastOp.state
    /\ w.err = NoErr

(***************************************************************************)
(* C22.  destroyDOM of a mounted component node hands the teardown to the  *)
(* component (its unmount) and then clears the node's el, without raising  *)
(* an error.                                                               *)
(***************************************************************************)
C22_ComponentNodeDestroyed ==
    lastOp.op = "destroyNode" =>
        /\ w.err = NoErr
        /\ w.comp.vdom = 0
        /\ w.vn[lastOp.old].el = 0
        /\ w.dom[Container].kids =
               SubSeq(before.dom[Container].kids, 1,
                      Len(before.dom[Container].kids)
                          - Len(Handles(before.vn, before.comp.vdom)))

\* the component holds a mounted tree
IsMounted(wd) == wd.comp.vdom # 0

(***************************************************************************)
(* C28.  mount() on a mounted component throws 'Component is already       *)
(* mounted!' and leaves the surface and the component's tree as they are;  *)
(* unmount() on a component that is not mounted throws 'Component is not   *)
(* mounted yet!'.                                                          *)
(***************************************************************************)
C28_MountStateGuarded ==
    /\ (lastOp.op = "compMount" /\ IsMounted(before)) =>
          /\ w.err = "Component is already mounted!"
          /\ w.dom = before.dom
          /\ w.vn = before.vn
          /\ w.comp = before.comp
    /\ (lastOp.op = "compUnmount" /\ ~ IsMounted(before)) =>
          w.err = "Component is not mounted yet!"

\* the position of the first log entry with the given op and vnode, 0 if none
LogPos(wd, op, v) ==
    LET S == {k \in 1..Len(wd.log) : wd.log[k].op = op /\ wd.log[k].v = v}
    IN  IF S = {} THEN 0 ELSE CHOOSE k \in S : \A j \in S : k <= j

\* the operations patchChildren gets from the differ for the two nodes
ChildOps(oldV, newV) ==
    arraysDiffSequence(extractChildren(before.vn, oldV), extractChildren(before.vn, newV),
                       EqCtx("nodes", before.vn)).sequence

\* the vnodes an operation of patchChildren works on: the subtree of its item
\* and, for NOOP and MOVE, of the old and the new child it pairs
NodesOfOp(operation, oldV, newV) ==
    Subtree(before.vn, operation.item)
        \cup (IF operation.op \in {ARRAY_DIFF_OP.NOOP, ARRAY_DIFF_OP.MOVE}
              THEN Subtree(before.vn, At(extractChildren(before.vn, oldV),
                                         operation.originalIndex))
                       \cup Subtree(before.vn, At(extractChildren(before.vn, newV),
                                                  operation.index))
              ELSE {})

\* the 1-based number of the operation that works on the vnode v, 0 if none
OpOf(v, oldV, newV) ==
    LET ops == ChildOps(oldV, newV)
        S == {k \in 1..Len(ops) : v \in NodesOfOp(ops[k], oldV, newV)}
    IN  IF S = {} THEN 0 ELSE CHOOSE k \in S : TRUE

\* the log entry i records patchDOM entering the in-place patch of an element
\* or fragment; its vnode is the new node, its idx the old one
PatchEntry(i) == w.log[i].op = "patchDOM" /\ w.vn[w.log[i].v].type # DOM_TYPES.TEXT

\* the props of the node of entry i are updated after the entry and before
\* patchChildren starts
PropsBeforeChildren(i) ==
    LET pc == LogPos(w, "patchChildren", w.log[i].v)
    IN  /\ pc # 0 => i < pc
        /\ \A j \in 1..Len(w.log) :
              (w.log[j].op \in PropMutations /\ w.log[j].el = w.log[i].el) =>
                  /\ i < j
                  /\ pc # 0 => j < pc

\* the entries of the child operations of the node of entry i come after
\* patchChildren starts, operation by operation in the order emitted
ChildrenInOrder(i) ==
    LET newV == w.log[i].v
        oldV == w.log[i].idx
        pc == LogPos(w, "patchChildren", newV)
        ops == ChildOps(oldV, newV)
        own == {j \in 1..Len(w.log) : w.log[j].v # 0 /\ OpOf(w.log[j].v, oldV, newV) # 0}
    IN  /\ \A j \in own : pc # 0 /\ pc < j
        /\ \A j1, j2 \in own :
              j1 < j2 => OpOf(w.log[j1].v, oldV, newV) <= OpOf(w.log[j2].v, oldV, newV)
        /\ (pc # 0 /\ w.err = NoErr) =>
              \A k \in 1..Len(ops) : \E j \in own : OpOf(w.log[j].v, oldV, newV) = k

(***************************************************************************)
(* C29.  Within one patchDOM call on a node, the attribute, class, style   *)
(* and listener updates of the node are applied before any operation on    *)
(* its children, and the child operations the differ returned are applied  *)
(* in the order emitted, each one finished, its recursive patch included,  *)
(* before the next starts.                                                 *)
(***************************************************************************)
C29_PropsThenChildrenInOrder ==
    Patched =>
        \A i \in 1..Len(w.log) :
            PatchEntry(i) => PropsBeforeChildren(i) /\ ChildrenInOrder(i)

C29_Witness ==
    /\ Patched
    /\ w.err = NoErr
    /\ \E i \in 1..Len(w.log) :
          /\ PatchEntry(i)
          /\ Len(ChildOps(w.log[i].idx, w.log[i].v)) >= 2
          /\ \E i2 \in (i + 1)..Len(w.log) :
                /\ PatchEntry(i2)
                /\ w.vn[w.log[i2].v].type = DOM_TYPES.ELEMENT
                /\ OpOf(w.log[i2].v, w.log[i].idx, w.log[i].v) = 1
                /\ LogPos(w, "patchChildren", w.log[i2].v) # 0
                /\ \E j \in 1..Len(w.log) :
                      /\ w.log[j].op \in PropMutations
                      /\ w.log[j].el = w.log[i2].el

\* the flattened children of the old and of the new root of the last patch
OldChildren == extractChildren(before.vn, lastOp.old)
NewChildren == extractChildren(before.vn, lastOp.new)

\* every child in the list carries a key and no two carry the same one
KeysUnique(children) ==
    /\ \A k \in 1..Len(children) : before.vn[children[k]].key # Absent
    /\ \A j, k \in 1..Len(children) :
          j # k => before.vn[children[j]].key # before.vn[children[k]].key

\* the old children equivalent to the new child n (same type, tag and key)
OldOf(n) ==
    {k \in 1..Len(OldChildren) :
        areNodesEqualKeyed(before.vn[OldChildren[k]], before.vn[n])}
\* the new children equivalent to the old child o
NewOf(o) ==
    {k \in 1..Len(NewChildren) :
        areNodesEqualKeyed(before.vn[o], before.vn[NewChildren[k]])}

\* the last patch was of two equivalent roots whose children carry unique keys
PatchedKeyedChildren ==
    /\ PatchedInPlace
    /\ before.vn[lastOp.new].type # DOM_TYPES.TEXT
    /\ KeysUnique(OldChildren)
    /\ KeysUnique(NewChildren)

\* new children without equivalent old sibling are mounted, old children
\* without equivalent new sibling destroyed, all others keep their handle
OnlyDifferencesRebuilt ==
    /\ \A k \in 1..Len(NewChildren) :
          LET n == NewChildren[k]
          IN  IF OldOf(n) = {}
              THEN LogCount(w, "mountDOM", n) = 1 /\ w.vn[n].el # 0
              ELSE /\ LogCount(w, "mountDOM", n) = 0
                   /\ \E j \in OldOf(n) : w.vn[n].el = before.vn[OldChildren[j]].el
    /\ \A k \in 1..Len(OldChildren) :
          LET o == OldChildren[k]
          IN  LogCount(w, "destroyDOM", o) = (IF NewOf(o) = {} THEN 1 ELSE 0)

(***************************************************************************)
(* C30.  When the children of the old and the new node carry unique keys,  *)
(* patchDOM mounts exactly the new children that have no equivalent old    *)
(* sibling, destroys exactly the old children that have no equivalent new  *)
(* sibling, and gives every other new child the surface handle of its      *)
(* equivalent old child, whatever the order of the children.               *)
(***************************************************************************)
C30_OnlyDifferencesRebuilt ==
    PatchedKeyedChildren => OnlyDifferencesRebuilt

(***************************************************************************)
(* C31.  patchDOM returns the new tree, and after it returns every node   *)
(* of the returned tree carries a surface handle: the handle of the       *)
(* equivalent old node where the node was patched in place, a freshly     *)
(* created handle where it was mounted; so the returned tree can be the   *)
(* previous tree of the next patch cycle, cycle after cycle.              *)
(***************************************************************************)
\* the last patch returned
PatchReturned == Patched /\ w.err = NoErr

\* the old nodes the last patch paired with the new node n in patchDOM
InPlace(n) ==
    {w.log[k].idx : k \in {j \in 1..Len(w.log) : w.log[j].op = "patchDOM"
                                                  /\ w.log[j].v = n}}

\* the last patch passed the new node n to mountDOM
WasMounted(n) ==
    \E k \in 1..Len(w.log) : w.log[k].op = "mountDOM" /\ w.log[k].v = n

\* the handle of the mounted node n did not exist before the patch; a
\* fragment has no handle of its own and carries the parent it was mounted in
FreshHandle(n) ==
    IF w.vn[n].type = DOM_TYPES.FRAGMENT
    THEN \E k \in 1..Len(w.log) : /\ w.log[k].op = "mountDOM"
                                  /\ w.log[k].v = n
                                  /\ w.log[k].el = w.vn[n].el
    ELSE w.vn[n].el \notin DOMAIN before.dom

\* n carries a handle of the surface: inherited or freshly created
CarriesHandle(n) ==
    /\ w.vn[n].el \in DOMAIN w.dom
    /\ w.vn[n].type # DOM_TYPES.FRAGMENT => w.dom[w.vn[n].el].parent # 0
    /\ \/ /\ InPlace(n) # {}
          /\ ~WasMounted(n)
          /\ \A o \in InPlace(n) : w.vn[n].el = before.vn[o].el
       \/ /\ InPlace(n) = {}
          /\ WasMounted(n)
          /\ FreshHandle(n)

\* a fragment below the root that patchChildren flattened into its parent's
\* children: it was neither patched nor mounted itself
FlattenedFragment(n) ==
    /\ n # cur
    /\ w.vn[n].type = DOM_TYPES.FRAGMENT
    /\ ~WasMounted(n)

\* C31 as stated: every node of the returned tree carries a handle
C31_EveryNodeCarriesHandle ==
    PatchReturned =>
        /\ cur = lastOp.new
        /\ \A n \in Subtree(w.vn, cur) : CarriesHandle(n)

\* C31 as amended: every node of the returned tree carries a handle, except
\* the fragments below the root that were flattened, which carry none
C31_NodesCarryHandlesButFlattenedFragments ==
    PatchReturned =>
        /\ cur = lastOp.new
        /\ \A n \in Subtree(w.vn, cur) :
               IF FlattenedFragment(n) THEN w.vn[n].el = 0 ELSE CarriesHandle(n)

\* a second consecutive patch returned: it patched a child in place and
\* mounted another
C31_Witness ==
    /\ PatchReturned
    /\ patches >= 2
    /\ \E n \in Subtree(w.vn, cur) : InPlace(n) # {} /\ n # cur
    /\ \E n \in Subtree(w.vn, cur) : WasMounted(n)

(***************************************************************************)
(* C32.  For every NOOP and every MOVE the differ emits, originalIndex is  *)
(* the item's index in the untouched old sequence (a valid index, never   *)
(* the marker of added items), old[originalIndex] is equivalent to        *)
(* new[index], and for a MOVE `from` is the item's position in the        *)
(* working sequence at emission, with from > index; so patchChildren      *)
(* pairs a new child with an equivalent old child that no earlier REMOVE  *)
(* destroyed.                                                              *)
(***************************************************************************)
\* the operation the step just emitted
Emitted == sequence'[Len(sequence')]

\* the steps that emit a NOOP and a MOVE
DiffNoops == dpc = "loop" /\ Len(sequence') = Len(sequence) + 1
                          /\ Emitted.op = ARRAY_DIFF_OP.NOOP
DiffMoves == dpc = "loop" /\ Len(sequence') = Len(sequence) + 1
                          /\ Emitted.op = ARRAY_DIFF_OP.MOVE

\* the operation pairs new[index] with an item of the old sequence that is
\* equivalent to it and that no earlier operation removed
PairsWithOld(k) ==
    LET operation == sequence[k]
        o == operation.originalIndex
    IN  /\ o \in 0..(Len(oldArray) - 1)
        /\ operation.index \in 0..(Len(newArray) - 1)
        /\ oldArray[o + 1] = operation.item
        /\ Eq(equalsCtx, oldArray[o + 1], newArray[operation.index + 1])
        /\ \A j \in 1..(k - 1) :
               sequence[j].op \in {ARRAY_DIFF_OP.NOOP, ARRAY_DIFF_OP.MOVE}
                   => sequence[j].originalIndex # o

C32_NoopAndMovePairWithOld ==
    /\ [](\A k \in 1..Len(sequence) :
             sequence[k].op \in {ARRAY_DIFF_OP.NOOP, ARRAY_DIFF_OP.MOVE}
                 => PairsWithOld(k))
    /\ [][DiffNoops =>
             /\ Emitted.index = index
             /\ Emitted.item = array.array[index + 1]
             /\ Emitted.originalIndex = array.originalIndices[index + 1]]_vars
    /\ [][DiffMoves =>
             /\ Emitted.index = index
             /\ Emitted.from > index
             /\ Emitted.from < Len(array.array)
             /\ Emitted.item = array.array[Emitted.from + 1]
             /\ Emitted.originalIndex = array.originalIndices[Emitted.from + 1]
             /\ Eq(equalsCtx, newArray[index + 1], Emitted.item)
             /\ \A j \in index..(Emitted.from - 1) :
                    ~Eq(equalsCtx, newArray[index + 1], array.array[j + 1])]_vars

\* the differ returned a MOVE of an item that had shifted in the working
\* sequence and a NOOP of an item that was not at its old index any more
C32_Witness ==
    /\ DiffReturned
    /\ \E k \in 1..Len(sequence) : /\ sequence[k].op = ARRAY_DIFF_OP.MOVE
                                   /\ sequence[k].from # sequence[k].originalIndex
    /\ \E k \in 1..Len(sequence) : /\ sequence[k].op = ARRAY_DIFF_OP.NOOP
                                   /\ sequence[k].index # sequence[k].originalIndex

(***************************************************************************)
(* C33.  arraysDiffSequence terminates for every pair of finite sequences  *)
(* and every equality function, although a removal examines the same      *)
(* target index again: it emits at most |old| + |new| operations, every   *)
(* iteration of the loop emits one, and when the loop is left every       *)
(* position of the new sequence has exactly one ADD, MOVE or NOOP.         *)
(***************************************************************************)
\* the operations emitted so far that place an item at position i
PlacedAt(i) ==
    {k \in 1..Len(sequence) :
        /\ sequence[k].op \in {ARRAY_DIFF_OP.ADD, ARRAY_DIFF_OP.MOVE, ARRAY_DIFF_OP.NOOP}
        /\ sequence[k].index = i}

\* what is left to do: the positions to fill and the items that can still
\* be removed; every iteration that emits decreases it
DiffVariant == 2 * (Len(newArray) - index) + Len(array.array)

C33_TerminatesOnePerPosition ==
    /\ Len(sequence) <= Len(oldArray) + Len(newArray)
    /\ dpc = "loop" => /\ index <= Len(newArray)
                       /\ DiffVariant >= 0
                       /\ \A i \in 0..(Len(newArray) - 1) :
                              Cardinality(PlacedAt(i)) = IF i < index THEN 1 ELSE 0
    /\ dpc # "loop" => \A i \in 0..(Len(newArray) - 1) : Cardinality(PlacedAt(i)) = 1

(***************************************************************************)
(* C34.  At every step of arraysDiffSequence, with the scan at target     *)
(* index i, the first i elements of the working sequence are element-wise *)
(* equivalent to the first i elements of the new sequence, added items    *)
(* lie only in that prefix, and the original-index shadow array has the   *)
(* length of the working sequence and is aligned with it: it holds, for   *)
(* every position, the index the item there has in the old sequence.      *)
(***************************************************************************)
C34_PrefixMatchesShadowAligned ==
    /\ index <= Len(newArray)
    /\ index <= Len(array.array)
    /\ \A k \in 1..index : Eq(equalsCtx, array.array[k], newArray[k])
    /\ Len(array.originalIndices) = Len(array.array)
    /\ \A k \in 1..Len(array.array) :
           LET o == array.originalIndices[k]
           IN  IF o = AddedMarker
               THEN k <= index /\ array.array[k] = newArray[k]
               ELSE /\ o \in 0..(Len(oldArray) - 1)
                    /\ oldArray[o + 1] = array.array[k]
                    /\ \A j \in 1..Len(array.array) :
                           array.originalIndices[j] = o => j = k

\* the scan is inside the new sequence, behind an added item and an old item
\* that is not at its old index, with old items still ahead of it
C34_Witness ==
    /\ dpc = "loop"
    /\ index >= 2
    /\ index < Len(array.array)
    /\ \E k \in 1..index : array.originalIndices[k] = AddedMarker
    /\ \E k \in 1..index : array.originalIndices[k] \notin {AddedMarker, k - 1}

(***************************************************************************)
(* C35.  arraysDiffSequence never evaluates the equality function on an   *)
(* absent element of the working sequence: every call of equalsFn gets    *)
(* two actual items, so the run with areNodesEqual does not fail when the *)
(* new sequence is longer than what remains of the working sequence.      *)
(***************************************************************************)
\* the iteration reaches the call equalsFn(item, newItem) of isNoop
ReachesIsNoop ==
    /\ dpc = "loop"
    /\ index < Len(newArray)
    /\ ~isRemoval(array, index, newArray, equalsCtx)

C35_EqualsFnGetsActualItems ==
    /\ [][ReachesIsNoop => At(array.array, index) # Undef]_vars
    /\ [](dpc # "threw")

(***************************************************************************)
(* C36.  The function returned by subscribe or afterEveryCommand is       *)
(* idempotent and removes only its own handler: called a second time, or  *)
(* after its handler is gone, it leaves every other registered handler in *)
(* place.                                                                  *)
(***************************************************************************)
Unregistered == lastCall.op = "unregister"

C36_UnregisterRemovesOnlyOwn ==
    Unregistered =>
        LET fn == lastCall.fn
            was == lastCall.before
        IN  /\ DOMAIN dispatcher.subs = DOMAIN was.subs
            /\ \A c \in DOMAIN was.subs :
                   dispatcher.subs[c] =
                       IF fn.kind = "sub" /\ fn.commandName = c
                       THEN RemoveFromSeq(was.subs[c], fn.handler)
                       ELSE was.subs[c]
            /\ dispatcher.afterHandlers =
                   IF fn.kind = "after"
                   THEN RemoveFromSeq(was.afterHandlers, fn.handler)
                   ELSE was.afterHandlers

(***************************************************************************)
(* C37.  During one dispatch(command) every handler that was registered   *)
(* for the command, and every after-command handler that was registered,  *)
(* when the dispatch began is invoked exactly once, also when a handler   *)
(* un-registers itself while the dispatch is running.                     *)
(***************************************************************************)
\* how often the last dispatch made the call
TimesCalled(call) ==
    Cardinality({k \in 1..Len(lastCall.calls) : lastCall.calls[k] = call})

C37_EachRegisteredHandlerOnce ==
    Dispatched =>
        /\ \A k \in 1..Len(ExpectedCalls) : TimesCalled(ExpectedCalls[k]) = 1
        /\ Len(lastCall.calls) = Len(ExpectedCalls)

(***************************************************************************)
(* C38.  A component's mounted flag is true exactly between a successful  *)
(* mount() and the next unmount(): after unmount() the component is       *)
(* unmounted, so a following mount() succeeds and a following             *)
(* updateState() throws 'Component is not mounted!' and does not touch    *)
(* the surface.                                                            *)
(***************************************************************************)
C38_MountedFlagFollowsMountAndUnmount ==
    /\ (lastOp.op \in CompOps /\ w.err = NoErr) => (w.comp.isMounted <=> IsMounted(w))
    /\ (lastOp.op = "compMount" /\ ~ IsMounted(before)) =>
          /\ w.err = NoErr
          /\ IsMounted(w)
    /\ (lastOp.op = "compUpdateState" /\ ~ IsMounted(before)) =>
          /\ w.err = "Component is not mounted!"
          /\ w.dom = before.dom

(***************************************************************************)
(* C39.  unmount() of a mounted component that was constructed with event *)
(* handlers completes without error and removes every subscription that   *)
(* mount() made for those handlers in the component's dispatcher, so that *)
(* a later emit() invokes no handler of the parent.                       *)
(***************************************************************************)
\* unmount() was called on a mounted component that has event handlers
UnmountedWithHandlers ==
    /\ lastOp.op = "compUnmount"
    /\ IsMounted(before)
    /\ before.comp.eventHandlers # <<>>

C39_UnmountRemovesSubscriptions ==
    UnmountedWithHandlers =>
        /\ w.err = NoErr
        /\ \A e \in DOMAIN w.comp.d.subs : w.comp.d.subs[e] = <<>>
        /\ \A e \in EventNames, payload \in CompPayloads :
               emit(w, e, payload).calls = <<>>

(***************************************************************************)
(* C40.  On a mounted component updateProps(props) merges the props into  *)
(* the component's props and, like updateState, renders again and         *)
(* patches: afterwards the component's mounted tree and the surface are   *)
(* those of render() with the merged props.                               *)
(***************************************************************************)
\* the description render() returns for the component
Rendered(component) ==
    LET a == alloc(EmptyWorld, render(component))
    IN  Shape(a.vn, Len(a.vn))

\* the component's tree and the surface below the container, behind the
\* foreign children, are those of render()
ShowsRender(wd) ==
    /\ wd.comp.vdom # 0
    /\ Shape(wd.vn, wd.comp.vdom) = Rendered(wd.comp)
    /\ LET kids == Surface(wd, Container).kids
           own == Len(MountedAlone(render(wd.comp)))
       IN  /\ Len(kids) >= own
           /\ \E k \in 0..(Len(kids) - own) :
                  SubSeq(kids, k + 1, k + own) = MountedAlone(render(wd.comp))

C40_UpdatePropsRendersAgain ==
    (lastOp.op = "compUpdateProps" /\ IsMounted(before)) =>
        /\ w.comp.props = lastOp.idx
        /\ ShowsRender(w)

=============================================================================
